---------------------------- MODULE Spec2Model ----------------------------
(***************************************************************************)
(* Model of the React/TypeScript frontend of the 49er sailing platform:    *)
(* the domain services (validation in front of the repositories), the      *)
(* repositories' get-by-id, and the useSessions / useEquipment hooks       *)
(* running against the REST backend.                                       *)
(*                                                                         *)
(* Numbers of a payload are fixed-point values in tenths (Num(12, 1) is    *)
(* 12.1), so that the comparisons of the code are integer comparisons and  *)
(* a non-integer rating or a fractional hour is a value of the model.      *)
(* An optional field of a DTO is a sequence: <<>> is undefined, <<v>> is   *)
(* the value v.                                                            *)
(***************************************************************************)
EXTENDS Integers, Sequences, FiniteSets, TLC

VARIABLES
    svcCall,     \* the service call: [op, data, resp], resp the ApiClient's answer
    svcResult,   \* how it ended: [done, threw, message, value]
    repoLog,     \* the repository methods invoked during that call, in order
    hook,        \* the hook instance mounted: "useSessions" or "useEquipment"
    db,          \* the backend's resources: id -> <<>> or <<record>>
    nextId,      \* the id the backend gives the next created resource
    list,        \* useState: sessions / equipment, a sequence of entity objects
    loading,     \* useState: loading
    error,       \* useState: error, <<>> for null or <<message>>
    statistics,  \* useState: statistics (useEquipment), <<>> for null
    params,      \* useState: sortParams / params: [order, activeOnly]
    inflight,    \* the async hook functions suspended at an await, oldest first
    nextSerial,  \* number of the next hook function call
    settled,     \* the promise a hook function settled last, if any
    lastFetch,   \* history: the list fetch issued last, [serial, response]
    variant,     \* the frontend at work: "react", "old" or "static"
    localStorage,\* [token, user]: the auth token and the user record, <<>> if absent
    location,    \* what the browser shows: "app", "login", or "reload" (page reloaded)
    clientOp,    \* the client operation under way and the responses it will get
    clientPc,    \* where that operation stands
    wire,        \* the HTTP requests sent, in order: [endpoint, authorization]
    outcome,     \* how the operation ended: <<>> or <<[threw, message]>>
    fnCall,      \* a function applied on its own: [fn, ...its arguments]
    fnPc,        \* where that application stands
    fnResult,    \* what it has produced so far
    currentPage, \* App.currentPage of the vanilla-JS frontend, "none" for null
    pending,     \* the page init() calls suspended at an await: [page, pc]
    refreshInterval, \* Dashboard.refreshInterval and Analytics.refreshInterval
    intervals,   \* the intervals the browser runs: [id, page]
    listeners,   \* number of submit listeners on #session-form and #equipment-form
    submitted,   \* history: the last submit event, [form, requests]
    navigations, \* number of App.navigateToPage calls so far
    wait,        \* Utils.debounce: the wait of the debounced function
    now,         \* the time
    timeout,     \* Utils.debounce: the closure's timeout variable
    timers,      \* the timeouts the browser holds: [id, due, args]
    nextHandle,  \* the handle the next setInterval / setTimeout returns
    calls,       \* history: the calls of the debounced function, [at, args]
    runs         \* history: the runs of the wrapped function, [at, args]

svcVars == <<svcCall, svcResult, repoLog>>
hookVars ==
    <<hook, db, nextId, list, loading, error, statistics, params, inflight,
      nextSerial, settled, lastFetch>>
clientVars == <<variant, localStorage, location, clientOp, clientPc, wire, outcome>>
fnVars == <<fnCall, fnPc, fnResult>>
pageVars ==
    <<currentPage, pending, refreshInterval, intervals, listeners, submitted, navigations>>
timerVars == <<wait, now, timeout, timers, calls, runs>>
jsVars == <<pageVars, timerVars, nextHandle>>
vars == <<svcVars, hookVars, clientVars, fnVars, jsVars>>

---------------------------------------------------------------------------
(* Values *)

Num(whole, tenths) == whole * 10 + tenths

None == <<>>
Some(v) == <<v>>
IsDefined(opt) == Len(opt) > 0
Val(opt) == opt[1]
Opt(S) == {None} \cup {Some(v) : v \in S}

(* A string, as far as the services read it: its length, the length of its  *)
(* trim(), and whether it is empty.  lead and trail count the whitespace    *)
(* around a core that starts and ends with a non-blank character; a string  *)
(* of blanks only has core = 0 and all its blanks in lead.                  *)
Str(lead, core, trail) == [lead |-> lead, core |-> core, trail |-> trail]
StrLength(s) == s.lead + s.core + s.trail
TrimLength(s) == s.core
Falsy(s) == StrLength(s) = 0

---------------------------------------------------------------------------
(* Bounds of the inputs *)

MaxWind == 1
MaxBlanks == 1
MaxPresent == 1
MaxEmailLen == 5

(* Whitespace-padded strings around a core of the given lengths *)
Strings(cores) ==
    {Str(l, c, t) : l \in 0..MaxBlanks, c \in cores, t \in 0..MaxBlanks}
        \ {Str(l, 0, t) : l \in 0..MaxBlanks, t \in 1..MaxBlanks}

WindValues == (0 - 1)..MaxWind

HoursMax == Num(12, 0)
HoursValues == {0 - 1, 0, 1, HoursMax - 1, HoursMax, HoursMax + 1}

RatingMin == Num(1, 0)
RatingMax == Num(5, 0)
RatingValues ==
    {0, Num(0, 9), Num(1, 0), Num(2, 0), Num(2, 5), Num(3, 0), Num(4, 0),
     Num(5, 0), Num(5, 1), Num(6, 0)}

---------------------------------------------------------------------------
(* The ApiClient: how one request ends.  The response interceptor turns     *)
(* every failure into a rejected promise carrying an Error.                 *)

Failures == {"notFound", "unauthorized", "serverError", "networkError", "timeout"}
Responses == {"ok"} \cup Failures

InterceptorMessage(resp) ==
    CASE resp = "notFound"     -> "Not found"
      [] resp = "unauthorized" -> "Could not validate credentials"
      [] resp = "serverError"  -> "Internal server error"
      [] resp = "networkError" -> "Network Error"
      [] resp = "timeout"      -> "timeout of 30000ms exceeded"
      [] OTHER                 -> "An unexpected error occurred"

(* Outcome of a call: thrown error or returned value, and the repository    *)
(* methods it invoked.                                                      *)
Throw(msg) == [threw |-> TRUE, message |-> msg, value |-> "", calls |-> <<>>]

RepositoryCall(method, resp) ==
    IF resp = "ok"
    THEN [threw |-> FALSE, message |-> "", value |-> "entity", calls |-> <<method>>]
    ELSE [threw |-> TRUE, message |-> InterceptorMessage(resp), value |-> "",
          calls |-> <<method>>]

---------------------------------------------------------------------------
(* SessionService *)

CreateSessionDTO ==
    [location : Strings({0, 1}),
     wind_speed_min : WindValues, wind_speed_max : WindValues,
     hours_on_water : HoursValues, performance_rating : RatingValues]

UpdateSessionDTO ==
    [location : Opt(Strings({0, 1})),
     wind_speed_min : Opt(WindValues), wind_speed_max : Opt(WindValues),
     hours_on_water : Opt(HoursValues), performance_rating : Opt(RatingValues)]

createSession_locationMissing(data) ==
    Falsy(data.location) \/ TrimLength(data.location) = 0

createSession_windNegative(data) ==
    data.wind_speed_min < 0 \/ data.wind_speed_max < 0

createSession_windInverted_reversed(data) ==
    data.wind_speed_max > data.wind_speed_min

createSession_windInverted(data) ==
    data.wind_speed_min > data.wind_speed_max

createSession_hoursOutOfRange_zeroAllowed(data) ==
    data.hours_on_water < 0 \/ data.hours_on_water > Num(12, 0)

createSession_hoursOutOfRange(data) ==
    data.hours_on_water <= 0 \/ data.hours_on_water > Num(12, 0)

createSession_ratingOutOfRange(data) ==
    data.performance_rating < Num(1, 0) \/ data.performance_rating > Num(5, 0)

SessionService_createSession(data, resp) ==
    IF createSession_locationMissing(data)
    THEN Throw("Location is required")
    ELSE IF createSession_windNegative(data)
    THEN Throw("Wind speeds cannot be negative")
    ELSE IF createSession_windInverted(data)
    THEN Throw("Minimum wind speed cannot exceed maximum")
    ELSE IF createSession_hoursOutOfRange(data)
    THEN Throw("Hours on water must be between 0 and 12")
    ELSE IF createSession_ratingOutOfRange(data)
    THEN Throw("Performance rating must be between 1 and 5")
    ELSE RepositoryCall("SessionRepository.create", resp)

updateSession_windInverted(data) ==
    /\ IsDefined(data.wind_speed_min) /\ IsDefined(data.wind_speed_max)
    /\ Val(data.wind_speed_min) > Val(data.wind_speed_max)

updateSession_hoursOutOfRange(data) ==
    /\ IsDefined(data.hours_on_water)
    /\ (Val(data.hours_on_water) <= 0 \/ Val(data.hours_on_water) > Num(12, 0))

updateSession_ratingOutOfRange(data) ==
    /\ IsDefined(data.performance_rating)
    /\ (\/ Val(data.performance_rating) < Num(1, 0)
        \/ Val(data.performance_rating) > Num(5, 0))

SessionService_updateSession(data, resp) ==
    IF updateSession_windInverted(data)
    THEN Throw("Minimum wind speed cannot exceed maximum")
    ELSE IF updateSession_hoursOutOfRange(data)
    THEN Throw("Hours on water must be between 0 and 12")
    ELSE IF updateSession_ratingOutOfRange(data)
    THEN Throw("Performance rating must be between 1 and 5")
    ELSE RepositoryCall("SessionRepository.update", resp)

TensionNames ==
    <<"forestay_tension", "shroud_tension", "main_tension", "cap_tension",
      "lowers_scale", "mains_scale", "cunningham", "outhaul", "vang">>

TensionFields == {TensionNames[i] : i \in DOMAIN TensionNames}
TensionValues == {0 - 1, 0, Num(10, 0), Num(10, 1)}
MastRakeValues == {Num(0 - 5, 0) - 1, Num(0 - 5, 0), Num(30, 0), Num(30, 0) + 1}

(* Settings payloads with at most MaxPresent tension fields present *)
SettingsData ==
    {[tensions |-> [f \in TensionFields |-> IF f \in S THEN Some(v[f]) ELSE None],
      mast_rake |-> rake] :
        <<S, v, rake>> \in
            UNION {{S1} \X [S1 -> TensionValues] \X Opt(MastRakeValues) :
                     S1 \in {S2 \in SUBSET TensionFields : Cardinality(S2) <= MaxPresent}}}

createEquipmentSettings_tensionOutOfRange(data, tension) ==
    /\ IsDefined(data.tensions[tension])
    /\ (Val(data.tensions[tension]) < 0 \/ Val(data.tensions[tension]) > Num(10, 0))

createEquipmentSettings_mastRakeOutOfRange(data) ==
    /\ IsDefined(data.mast_rake)
    /\ (Val(data.mast_rake) < Num(0 - 5, 0) \/ Val(data.mast_rake) > Num(30, 0))

SessionService_createEquipmentSettings(data, resp) ==
    LET bad == {i \in DOMAIN TensionNames :
                  createEquipmentSettings_tensionOutOfRange(data, TensionNames[i])}
    IN  IF bad # {}
        THEN LET first == CHOOSE i \in bad : \A j \in bad : i <= j
             IN  Throw(TensionNames[first] \o " must be between 0 and 10")
        ELSE IF createEquipmentSettings_mastRakeOutOfRange(data)
        THEN Throw("Mast rake must be between -5 and 30 degrees")
        ELSE RepositoryCall("SessionRepository.createSettings", resp)

---------------------------------------------------------------------------
(* EquipmentService *)

NameStrings == Strings({0, 1, 99, 100, 101})
CreateEquipmentDTO == [name : NameStrings]
UpdateEquipmentDTO == [name : Opt(NameStrings)]

createEquipment_nameMissing(data) ==
    Falsy(data.name) \/ TrimLength(data.name) = 0

createEquipment_nameTooLong(data) == StrLength(data.name) > 100

EquipmentService_createEquipment(data, resp) ==
    IF createEquipment_nameMissing(data)
    THEN Throw("Equipment name is required")
    ELSE IF createEquipment_nameTooLong(data)
    THEN Throw("Equipment name is too long")
    ELSE RepositoryCall("EquipmentRepository.create", resp)

updateEquipment_nameEmpty(data) ==
    IsDefined(data.name) /\ TrimLength(Val(data.name)) = 0

updateEquipment_nameTooLong(data) ==
    IsDefined(data.name) /\ StrLength(Val(data.name)) > 100

EquipmentService_updateEquipment(data, resp) ==
    IF updateEquipment_nameEmpty(data)
    THEN Throw("Equipment name cannot be empty")
    ELSE IF updateEquipment_nameTooLong(data)
    THEN Throw("Equipment name is too long")
    ELSE RepositoryCall("EquipmentRepository.update", resp)

---------------------------------------------------------------------------
(* AuthService *)

PlainStrings(lengths) == {Str(0, n, 0) : n \in lengths}

(* An email address is read character by character by isValidEmail *)
EmailChars == {"a", "@", ".", " "}
Emails == UNION {[1..n -> EmailChars] : n \in 0..MaxEmailLen}

LoginRequest == [username : PlainStrings({0, 2, 3}), password : PlainStrings({0, 5, 6})]
RegisterRequest ==
    [email : Emails, username : PlainStrings({0, 2, 3}),
     password : PlainStrings({0, 5, 6})]

(* /^[^\s@]+@[^\s@]+\.[^\s@]+$/ : one "@" at position at, no whitespace,    *)
(* a non-empty local part, and after the "@" a "." with at least one        *)
(* character on either side                                                 *)
isValidEmail(email) ==
    \E at \in 1..Len(email) :
        /\ email[at] = "@"
        /\ \A k \in 1..Len(email) : k # at => email[k] \notin {"@", " "}
        /\ at > 1
        /\ \E dot \in (at + 2)..(Len(email) - 1) : email[dot] = "."

login_credentialsMissing(credentials) ==
    Falsy(credentials.username) \/ Falsy(credentials.password)

login_usernameTooShort_offByOne(credentials) == StrLength(credentials.username) < 2

login_usernameTooShort(credentials) == StrLength(credentials.username) < 3

(* resp answers /auth/login, resp2 the /auth/me that follows it *)
AuthService_login(credentials, resp, resp2) ==
    IF login_credentialsMissing(credentials)
    THEN Throw("Username and password are required")
    ELSE IF login_usernameTooShort(credentials)
    THEN Throw("Username must be at least 3 characters")
    ELSE LET token == RepositoryCall("AuthRepository.login", resp)
             user == RepositoryCall("AuthRepository.getCurrentUser", resp2)
         IN  IF token.threw THEN token
             ELSE [user EXCEPT !.calls = token.calls \o user.calls]

register_fieldMissing(data) ==
    Len(data.email) = 0 \/ Falsy(data.username) \/ Falsy(data.password)

register_usernameTooShort(data) == StrLength(data.username) < 3

register_passwordTooShort(data) == StrLength(data.password) < 6

AuthService_register(data, resp) ==
    IF register_fieldMissing(data)
    THEN Throw("All fields are required")
    ELSE IF ~isValidEmail(data.email)
    THEN Throw("Invalid email format")
    ELSE IF register_usernameTooShort(data)
    THEN Throw("Username must be at least 3 characters")
    ELSE IF register_passwordTooShort(data)
    THEN Throw("Password must be at least 6 characters")
    ELSE RepositoryCall("AuthRepository.register", resp)

---------------------------------------------------------------------------
(* Get-by-id: the repository catches whatever the request throws *)

SessionRepository_getById_noCatch(resp) == RepositoryCall("ApiClient.get", resp)

SessionRepository_getById(resp) ==
    LET request == RepositoryCall("ApiClient.get", resp)
    IN  IF request.threw
        THEN [threw |-> FALSE, message |-> "", value |-> "null", calls |-> request.calls]
        ELSE request

EquipmentRepository_getById(resp) ==
    LET request == RepositoryCall("ApiClient.get", resp)
    IN  IF request.threw
        THEN [threw |-> FALSE, message |-> "", value |-> "null", calls |-> request.calls]
        ELSE request

SessionService_getSessionById(resp) ==
    LET r == SessionRepository_getById(resp)
    IN  [r EXCEPT !.calls = <<"SessionRepository.getById">> \o r.calls]

EquipmentService_getEquipmentById(resp) ==
    LET r == EquipmentRepository_getById(resp)
    IN  [r EXCEPT !.calls = <<"EquipmentRepository.getById">> \o r.calls]

---------------------------------------------------------------------------
(* No hook is mounted while the services are called on their own *)
ClientIdle ==
    /\ variant = "none"
    /\ localStorage = [token |-> <<>>, user |-> <<>>]
    /\ location = "app"
    /\ clientOp = [name |-> "none"]
    /\ clientPc = "done"
    /\ wire = <<>>
    /\ outcome = <<>>

FnIdle ==
    /\ fnCall = [fn |-> "none"]
    /\ fnPc = "done"
    /\ fnResult = <<>>

JsIdle ==
    /\ currentPage = "none"
    /\ pending = <<>>
    /\ refreshInterval = [dashboard |-> <<>>, analytics |-> <<>>]
    /\ intervals = {}
    /\ listeners = [sessions |-> 0, equipment |-> 0]
    /\ submitted = <<>>
    /\ navigations = 0
    /\ wait = 0
    /\ now = 0
    /\ timeout = <<>>
    /\ timers = {}
    /\ nextHandle = 1
    /\ calls = <<>>
    /\ runs = <<>>

HookIdle ==
    /\ hook = "none"
    /\ db = <<>>
    /\ nextId = 1
    /\ list = <<>>
    /\ loading = FALSE
    /\ error = <<>>
    /\ statistics = <<>>
    /\ params = [order |-> "none", activeOnly |-> TRUE]
    /\ inflight = <<>>
    /\ nextSerial = 1
    /\ settled = <<>>
    /\ lastFetch = [serial |-> 0, response |-> <<>>]

---------------------------------------------------------------------------
(* The services called one request at a time *)
(* A call is drawn with its arguments and with the answer the ApiClient     *)
(* will give; the action of its entry point runs it to its end.             *)

Pending == [done |-> FALSE, threw |-> FALSE, message |-> "", value |-> ""]
Outcome(r) == [done |-> TRUE, threw |-> r.threw, message |-> r.message, value |-> r.value]

Calls(op, datas, resps) == {[op |-> op, data |-> d, resp |-> r] : d \in datas, r \in resps}

Invoke(op, r) ==
    /\ svcCall.op = op
    /\ ~svcResult.done
    /\ svcResult' = Outcome(r)
    /\ repoLog' = r.calls
    /\ UNCHANGED <<jsVars, svcCall, hookVars, clientVars, fnVars>>

CallCreateSession ==
    Invoke("SessionService.createSession",
           SessionService_createSession(svcCall.data, svcCall.resp))

CallUpdateSession ==
    Invoke("SessionService.updateSession",
           SessionService_updateSession(svcCall.data, svcCall.resp))

CallCreateEquipmentSettings ==
    Invoke("SessionService.createEquipmentSettings",
           SessionService_createEquipmentSettings(svcCall.data, svcCall.resp))

CallCreateEquipment ==
    Invoke("EquipmentService.createEquipment",
           EquipmentService_createEquipment(svcCall.data, svcCall.resp))

CallUpdateEquipment ==
    Invoke("EquipmentService.updateEquipment",
           EquipmentService_updateEquipment(svcCall.data, svcCall.resp))

CallLogin ==
    Invoke("AuthService.login",
           AuthService_login(svcCall.data, svcCall.resp[1], svcCall.resp[2]))

CallRegister ==
    Invoke("AuthService.register", AuthService_register(svcCall.data, svcCall.resp))

CallGetSessionById ==
    Invoke("SessionService.getSessionById", SessionService_getSessionById(svcCall.resp))

CallGetEquipmentById ==
    Invoke("EquipmentService.getEquipmentById",
           EquipmentService_getEquipmentById(svcCall.resp))

ServiceInit ==
    /\ \/ svcCall \in Calls("SessionService.createSession", CreateSessionDTO, Responses)
       \/ svcCall \in Calls("SessionService.updateSession", UpdateSessionDTO, Responses)
       \/ svcCall \in Calls("SessionService.createEquipmentSettings", SettingsData,
                            Responses)
       \/ svcCall \in Calls("EquipmentService.createEquipment", CreateEquipmentDTO,
                            Responses)
       \/ svcCall \in Calls("EquipmentService.updateEquipment", UpdateEquipmentDTO,
                            Responses)
       \/ svcCall \in Calls("AuthService.login", LoginRequest, Responses \X Responses)
       \/ svcCall \in Calls("AuthService.register", RegisterRequest, Responses)
       \/ svcCall \in Calls("SessionService.getSessionById", {<<>>}, Responses)
       \/ svcCall \in Calls("EquipmentService.getEquipmentById", {<<>>}, Responses)
    /\ svcResult = Pending
    /\ repoLog = <<>>
    /\ HookIdle
    /\ ClientIdle
    /\ FnIdle
    /\ JsIdle

ServiceNext ==
    \/ CallCreateSession
    \/ CallUpdateSession
    \/ CallCreateEquipmentSettings
    \/ CallCreateEquipment
    \/ CallUpdateEquipment
    \/ CallLogin
    \/ CallRegister
    \/ CallGetSessionById
    \/ CallGetEquipmentById

SpecService == ServiceInit /\ [][ServiceNext]_vars

---------------------------------------------------------------------------
(* The hooks.  An async hook function is an entry of inflight from its call *)
(* to the settling of its promise; it is suspended at an await while its    *)
(* request travels, is handled by the backend, and is answered.             *)

MaxId == 2
MaxInFlight == 2
MaxActions == 3

Ids == 1..MaxId

NoRequest ==
    [stage |-> "none", kind |-> "", id |-> 0, data |-> <<>>, resp |-> "", body |-> <<>>]

Request(kind, id, data) ==
    [stage |-> "sent", kind |-> kind, id |-> id, data |-> data, resp |-> "", body |-> <<>>]

Activation(action, id, data, closure, rq, rq2) ==
    [serial |-> nextSerial, action |-> action, id |-> id, data |-> data,
     closure |-> closure, pc |-> "request", req |-> rq, req2 |-> rq2]

CanCall == Len(inflight) < MaxInFlight /\ nextSerial <= MaxActions

Suspend(activation) ==
    /\ inflight' = Append(inflight, activation)
    /\ nextSerial' = nextSerial + 1

Without(i) == SubSeq(inflight, 1, i - 1) \o SubSeq(inflight, i + 1, Len(inflight))

Promise(serial, action, id, threw, message) ==
    [serial |-> serial, action |-> action, id |-> id, threw |-> threw,
     message |-> message]

(* The catch block of a hook function: error becomes the message of the     *)
(* thrown Error; the action functions re-throw, the fetch functions do not. *)
CatchError_swallowed(action, message) == [error |-> Some(message), threw |-> FALSE]

CatchError(action, message) ==
    [error |-> Some(message),
     threw |-> action \notin {"fetchSessions", "fetchEquipment"}]

(* A call that throws before its first await (a validation error) *)
FailAtCall(action, id, message) ==
    LET caught == CatchError(action, message)
    IN  /\ error' = caught.error
        /\ settled' = Some(Promise(nextSerial, action, id, caught.threw, message))
        /\ nextSerial' = nextSerial + 1
        /\ UNCHANGED inflight

(* A rejected await: the catch block runs and the promise settles *)
FailAtResume(i) ==
    LET a == inflight[i]
        rq == IF a.req.stage = "answered" /\ a.req.resp # "ok" THEN a.req ELSE a.req2
        caught == CatchError(a.action, InterceptorMessage(rq.resp))
    IN  /\ error' = caught.error
        /\ settled' = Some(Promise(a.serial, a.action, a.id, caught.threw,
                                InterceptorMessage(rq.resp)))
        /\ inflight' = Without(i)

Resolve(i) ==
    /\ settled' = Some(Promise(inflight[i].serial, inflight[i].action,
                            inflight[i].id, FALSE, ""))
    /\ inflight' = Without(i)

Awaiting(i, action, pc) ==
    /\ i \in DOMAIN inflight
    /\ inflight[i].action = action
    /\ inflight[i].pc = pc

Answered(rq) == rq.stage = "answered"
Rejects(rq) == rq.stage = "answered" /\ rq.resp # "ok"
Fulfils(rq) == rq.stage = "answered" /\ rq.resp = "ok"

(* History of the list fetches: the serial of the one issued last and, once  *)
(* it has been received, the list it was answered with                      *)
Issued(serial) == [serial |-> serial, response |-> None]

Received(i) ==
    IF inflight[i].serial = lastFetch.serial /\ Fulfils(inflight[i].req)
                                            /\ inflight[i].req2.resp \in {"", "ok"}
    THEN [lastFetch EXCEPT !.response = Some(inflight[i].req.body)]
    ELSE lastFetch

---------------------------------------------------------------------------
(* useSessions *)

SessionPayloads ==
    [location : {Str(0, 1, 0)},
     wind_speed_min : WindValues, wind_speed_max : {MaxWind},
     hours_on_water : {Num(1, 0)}, performance_rating : {Num(3, 0)}]

SessionUpdates ==
    [location : {None},
     wind_speed_min : Opt(0..MaxWind), wind_speed_max : Opt(0..MaxWind),
     hours_on_water : {None}, performance_rating : {None}]

(* mapToEntity constructs a new object for each response item; obj is the   *)
(* identity of that object: <<serial of the call that built it, id>>.       *)
SessionRepository_mapToEntity(data, obj) ==
    [obj |-> obj, id |-> data.id,
     windSpeedMin |-> data.wind_speed_min, windSpeedMax |-> data.wind_speed_max,
     equipmentIds |-> <<>>]

useSessions_fetchSessions(p) ==
    /\ hook = "useSessions"
    /\ CanCall
    /\ loading' = TRUE
    /\ error' = None
    /\ Suspend(Activation("fetchSessions", 0, p, <<>>, Request("sessions.list", 0, p),
                          NoRequest))
    /\ lastFetch' = Issued(nextSerial)
    /\ UNCHANGED <<list, statistics, settled>>

sortSessions ==
    \E order \in {"desc"} :
        /\ params' = [params EXCEPT !.order = order]
        /\ useSessions_fetchSessions(params')
        /\ UNCHANGED <<jsVars, svcVars, clientVars, fnVars, hook, db, nextId>>

refreshSessions ==
    /\ useSessions_fetchSessions(params)
    /\ UNCHANGED <<jsVars, svcVars, clientVars, fnVars, hook, db, nextId, params>>

fetchSessions_resume ==
    \E i \in DOMAIN inflight :
        /\ Awaiting(i, "fetchSessions", "request")
        /\ Answered(inflight[i].req)
        /\ IF Fulfils(inflight[i].req)
           THEN LET body == inflight[i].req.body
                IN  /\ list' = [k \in 1..Len(body) |->
                                  SessionRepository_mapToEntity(
                                      body[k], <<inflight[i].serial, body[k].id>>)]
                    /\ Resolve(i)
                    /\ UNCHANGED error
           ELSE /\ FailAtResume(i)
                /\ UNCHANGED list
        /\ lastFetch' = Received(i)
        /\ loading' = FALSE
        /\ UNCHANGED <<jsVars, svcVars, clientVars, fnVars, hook, db, nextId, statistics, params, nextSerial>>

(* Creates still travelling: the backend has MaxId ids to give *)
PendingCreates ==
    Cardinality({i \in DOMAIN inflight :
                   inflight[i].req.stage = "sent"
                       /\ inflight[i].req.kind \in {"sessions.create", "equipment.create"}})

useSessions_createSession ==
    \E data \in SessionPayloads :
        /\ hook = "useSessions"
        /\ CanCall
        /\ nextId + PendingCreates <= MaxId
        /\ LET validated == SessionService_createSession(data, "ok")
           IN  IF validated.threw
               THEN FailAtCall("createSession", 0, validated.message)
               ELSE /\ error' = None
                    /\ UNCHANGED settled
                    /\ Suspend(Activation("createSession", 0, data, <<>>,
                                          Request("sessions.create", 0, data), NoRequest))
        /\ UNCHANGED <<jsVars, svcVars, clientVars, fnVars, lastFetch, hook, db, nextId, list, loading, statistics, params>>

createSession_resume ==
    \E i \in DOMAIN inflight :
        /\ Awaiting(i, "createSession", "request")
        /\ Answered(inflight[i].req)
        /\ IF Fulfils(inflight[i].req)
           THEN LET newSession ==
                        SessionRepository_mapToEntity(
                            inflight[i].req.body,
                            <<inflight[i].serial, inflight[i].req.body.id>>)
                IN  /\ list' = <<newSession>> \o list
                    /\ Resolve(i)
                    /\ UNCHANGED error
           ELSE /\ FailAtResume(i)
                /\ UNCHANGED list
        /\ UNCHANGED <<jsVars, svcVars, clientVars, fnVars, lastFetch, hook, db, nextId, loading, statistics, params, nextSerial>>

(* prev.map(x => x.id === id ? updated : x) *)
replaceById_everyEntry(prev, id, updated) == [k \in DOMAIN prev |-> updated]

replaceById(prev, id, updated) ==
    [k \in DOMAIN prev |-> IF prev[k].id = id THEN updated ELSE prev[k]]

useSessions_updateSession ==
    \E id \in Ids, data \in SessionUpdates :
        /\ hook = "useSessions"
        /\ CanCall
        /\ LET validated == SessionService_updateSession(data, "ok")
           IN  IF validated.threw
               THEN FailAtCall("updateSession", id, validated.message)
               ELSE /\ error' = None
                    /\ UNCHANGED settled
                    /\ Suspend(Activation("updateSession", id, data, <<>>,
                                          Request("sessions.update", id, data), NoRequest))
        /\ UNCHANGED <<jsVars, svcVars, clientVars, fnVars, lastFetch, hook, db, nextId, list, loading, statistics, params>>

updateSession_resume ==
    \E i \in DOMAIN inflight :
        /\ Awaiting(i, "updateSession", "request")
        /\ Answered(inflight[i].req)
        /\ IF Fulfils(inflight[i].req)
           THEN LET updatedSession ==
                        SessionRepository_mapToEntity(
                            inflight[i].req.body,
                            <<inflight[i].serial, inflight[i].req.body.id>>)
                IN  /\ list' = replaceById(list, inflight[i].id, updatedSession)
                    /\ Resolve(i)
                    /\ UNCHANGED error
           ELSE /\ FailAtResume(i)
                /\ UNCHANGED list
        /\ UNCHANGED <<jsVars, svcVars, clientVars, fnVars, lastFetch, hook, db, nextId, loading, statistics, params, nextSerial>>

useSessions_deleteSession ==
    \E id \in Ids :
        /\ hook = "useSessions"
        /\ CanCall
        /\ error' = None
        /\ Suspend(Activation("deleteSession", id, <<>>, <<>>,
                              Request("sessions.delete", id, <<>>), NoRequest))
        /\ UNCHANGED <<jsVars, svcVars, clientVars, fnVars, lastFetch, hook, db, nextId, list, loading, statistics, params,
                       settled>>

(* prev.filter(x => x.id !== id) *)
Filter(prev, id) ==
    LET F[k \in 0..Len(prev)] ==
            IF k = 0 THEN <<>>
            ELSE IF prev[k].id # id THEN Append(F[k - 1], prev[k]) ELSE F[k - 1]
    IN  F[Len(prev)]

deleteSession_resume ==
    \E i \in DOMAIN inflight :
        /\ Awaiting(i, "deleteSession", "request")
        /\ Answered(inflight[i].req)
        /\ IF Fulfils(inflight[i].req)
           THEN /\ list' = Filter(list, inflight[i].id)
                /\ Resolve(i)
                /\ UNCHANGED error
           ELSE /\ FailAtResume(i)
                /\ UNCHANGED list
        /\ UNCHANGED <<jsVars, svcVars, clientVars, fnVars, lastFetch, hook, db, nextId, loading, statistics, params, nextSerial>>

---------------------------------------------------------------------------
(* useEquipment *)

EquipmentPayloads == [name : {Str(0, 0, 0), Str(0, 1, 0)}]
EquipmentUpdates == [name : {Some(Str(0, 0, 0)), Some(Str(0, 2, 0))}]

EquipmentRepository_mapToEntity(data, obj) ==
    [obj |-> obj, id |-> data.id, name |-> data.name, active |-> data.active]

useEquipment_fetchEquipment(p) ==
    /\ hook = "useEquipment"
    /\ CanCall
    /\ loading' = TRUE
    /\ error' = None
    /\ Suspend(Activation("fetchEquipment", 0, p, <<>>,
                          Request("equipment.list", 0, p),
                          Request("equipment.statistics", 0, <<>>)))
    /\ lastFetch' = Issued(nextSerial)
    /\ UNCHANGED <<list, statistics, settled>>

sortEquipment ==
    \E order \in {"desc"} :
        /\ params' = [params EXCEPT !.order = order]
        /\ useEquipment_fetchEquipment(params')
        /\ UNCHANGED <<jsVars, svcVars, clientVars, fnVars, hook, db, nextId>>

filterActiveOnly ==
    \E activeOnly \in BOOLEAN :
        /\ params' = [params EXCEPT !.activeOnly = activeOnly]
        /\ useEquipment_fetchEquipment(params')
        /\ UNCHANGED <<jsVars, svcVars, clientVars, fnVars, hook, db, nextId>>

refreshEquipment ==
    /\ useEquipment_fetchEquipment(params)
    /\ UNCHANGED <<jsVars, svcVars, clientVars, fnVars, hook, db, nextId, params>>

(* Promise.all settles at the first rejection, or when both have fulfilled *)
fetchEquipment_resume ==
    \E i \in DOMAIN inflight :
        /\ Awaiting(i, "fetchEquipment", "request")
        /\ \/ Rejects(inflight[i].req) \/ Rejects(inflight[i].req2)
           \/ Fulfils(inflight[i].req) /\ Fulfils(inflight[i].req2)
        /\ IF Fulfils(inflight[i].req) /\ Fulfils(inflight[i].req2)
           THEN LET body == inflight[i].req.body
                IN  /\ list' = [k \in 1..Len(body) |->
                                  EquipmentRepository_mapToEntity(
                                      body[k], <<inflight[i].serial, body[k].id>>)]
                    /\ statistics' = Some(inflight[i].req2.body)
                    /\ Resolve(i)
                    /\ UNCHANGED error
           ELSE /\ FailAtResume(i)
                /\ UNCHANGED <<list, statistics>>
        /\ lastFetch' = Received(i)
        /\ loading' = FALSE
        /\ UNCHANGED <<jsVars, svcVars, clientVars, fnVars, hook, db, nextId, params, nextSerial>>

(* The statistics refetch that follows the list patch *)
AwaitStatistics_listFetch(i) ==
    inflight' = [inflight EXCEPT ![i].pc = "stats",
                                 ![i].req2 = Request("equipment.list", 0, params)]

AwaitStatistics(i) ==
    inflight' = [inflight EXCEPT ![i].pc = "stats",
                                 ![i].req2 = Request("equipment.statistics", 0, <<>>)]

useEquipment_createEquipment ==
    \E data \in EquipmentPayloads :
        /\ hook = "useEquipment"
        /\ CanCall
        /\ nextId + PendingCreates <= MaxId
        /\ LET validated == EquipmentService_createEquipment(data, "ok")
           IN  IF validated.threw
               THEN FailAtCall("createEquipment", 0, validated.message)
               ELSE /\ error' = None
                    /\ UNCHANGED settled
                    /\ Suspend(Activation("createEquipment", 0, data, <<>>,
                                          Request("equipment.create", 0, data), NoRequest))
        /\ UNCHANGED <<jsVars, svcVars, clientVars, fnVars, lastFetch, hook, db, nextId, list, loading, statistics, params>>

createEquipment_resume ==
    \E i \in DOMAIN inflight :
        /\ Awaiting(i, "createEquipment", "request")
        /\ Answered(inflight[i].req)
        /\ IF Fulfils(inflight[i].req)
           THEN LET newEquipment ==
                        EquipmentRepository_mapToEntity(
                            inflight[i].req.body,
                            <<inflight[i].serial, inflight[i].req.body.id>>)
                IN  /\ list' = <<newEquipment>> \o list
                    /\ AwaitStatistics(i)
                    /\ UNCHANGED <<error, settled>>
           ELSE /\ FailAtResume(i)
                /\ UNCHANGED list
        /\ UNCHANGED <<jsVars, svcVars, clientVars, fnVars, lastFetch, hook, db, nextId, loading, statistics, params, nextSerial>>

useEquipment_updateEquipment ==
    \E id \in Ids, data \in EquipmentUpdates :
        /\ hook = "useEquipment"
        /\ CanCall
        /\ LET validated == EquipmentService_updateEquipment(data, "ok")
           IN  IF validated.threw
               THEN FailAtCall("updateEquipment", id, validated.message)
               ELSE /\ error' = None
                    /\ UNCHANGED settled
                    /\ Suspend(Activation("updateEquipment", id, data, <<>>,
                                          Request("equipment.update", id, data), NoRequest))
        /\ UNCHANGED <<jsVars, svcVars, clientVars, fnVars, lastFetch, hook, db, nextId, list, loading, statistics, params>>

updateEquipment_resume ==
    \E i \in DOMAIN inflight :
        /\ Awaiting(i, "updateEquipment", "request")
        /\ Answered(inflight[i].req)
        /\ IF Fulfils(inflight[i].req)
           THEN LET updatedEquipment ==
                        EquipmentRepository_mapToEntity(
                            inflight[i].req.body,
                            <<inflight[i].serial, inflight[i].req.body.id>>)
                IN  /\ list' = replaceById(list, inflight[i].id, updatedEquipment)
                    /\ Resolve(i)
                    /\ UNCHANGED error
           ELSE /\ FailAtResume(i)
                /\ UNCHANGED list
        /\ UNCHANGED <<jsVars, svcVars, clientVars, fnVars, lastFetch, hook, db, nextId, loading, statistics, params, nextSerial>>

useEquipment_deleteEquipment ==
    \E id \in Ids :
        /\ hook = "useEquipment"
        /\ CanCall
        /\ error' = None
        /\ Suspend(Activation("deleteEquipment", id, <<>>, <<>>,
                              Request("equipment.delete", id, <<>>), NoRequest))
        /\ UNCHANGED <<jsVars, svcVars, clientVars, fnVars, lastFetch, hook, db, nextId, list, loading, statistics, params,
                       settled>>

deleteEquipment_resume ==
    \E i \in DOMAIN inflight :
        /\ Awaiting(i, "deleteEquipment", "request")
        /\ Answered(inflight[i].req)
        /\ IF Fulfils(inflight[i].req)
           THEN /\ list' = Filter(list, inflight[i].id)
                /\ AwaitStatistics(i)
                /\ UNCHANGED <<error, settled>>
           ELSE /\ FailAtResume(i)
                /\ UNCHANGED list
        /\ UNCHANGED <<jsVars, svcVars, clientVars, fnVars, lastFetch, hook, db, nextId, loading, statistics, params, nextSerial>>

(* The `equipment` array a retire/reactivate function closes over: the      *)
(* objects of the render that handed the function out.                      *)
Closure == [k \in DOMAIN list |-> [id |-> list[k].id, obj |-> list[k].obj]]

(* equipment.find(e => e.id === id): the index of the first match, 0 if none *)
find(closure, id) ==
    LET hits == {k \in DOMAIN closure : closure[k].id = id}
    IN  IF hits = {} THEN 0 ELSE CHOOSE k \in hits : \A h \in hits : k <= h

(* updatedEquipment.active = value; setEquipment(prev => [...prev]): the    *)
(* found object is written in place, wherever the current array holds it.   *)
setActive(prev, closure, id, value) ==
    IF find(closure, id) = 0
    THEN prev
    ELSE [k \in DOMAIN prev |->
            IF prev[k].obj = closure[find(closure, id)].obj
            THEN [prev[k] EXCEPT !.active = value]
            ELSE prev[k]]

retireEquipment_patch_toggled(prev, closure, id) ==
    IF find(closure, id) = 0
    THEN prev
    ELSE [k \in DOMAIN prev |->
            IF prev[k].obj = closure[find(closure, id)].obj
            THEN [prev[k] EXCEPT !.active = ~prev[k].active]
            ELSE prev[k]]

retireEquipment_patch(prev, closure, id) == setActive(prev, closure, id, FALSE)

reactivateEquipment_patch(prev, closure, id) == setActive(prev, closure, id, TRUE)

useEquipment_retireEquipment ==
    \E id \in Ids :
        /\ hook = "useEquipment"
        /\ CanCall
        /\ error' = None
        /\ Suspend(Activation("retireEquipment", id, <<>>, Closure,
                              Request("equipment.retire", id, <<>>), NoRequest))
        /\ UNCHANGED <<jsVars, svcVars, clientVars, fnVars, lastFetch, hook, db, nextId, list, loading, statistics, params,
                       settled>>

retireEquipment_resume ==
    \E i \in DOMAIN inflight :
        /\ Awaiting(i, "retireEquipment", "request")
        /\ Answered(inflight[i].req)
        /\ IF Fulfils(inflight[i].req)
           THEN /\ list' = retireEquipment_patch(list, inflight[i].closure, inflight[i].id)
                /\ AwaitStatistics(i)
                /\ UNCHANGED <<error, settled>>
           ELSE /\ FailAtResume(i)
                /\ UNCHANGED list
        /\ UNCHANGED <<jsVars, svcVars, clientVars, fnVars, lastFetch, hook, db, nextId, loading, statistics, params, nextSerial>>

useEquipment_reactivateEquipment ==
    \E id \in Ids :
        /\ hook = "useEquipment"
        /\ CanCall
        /\ error' = None
        /\ Suspend(Activation("reactivateEquipment", id, <<>>, Closure,
                              Request("equipment.reactivate", id, <<>>), NoRequest))
        /\ UNCHANGED <<jsVars, svcVars, clientVars, fnVars, lastFetch, hook, db, nextId, list, loading, statistics, params,
                       settled>>

reactivateEquipment_resume ==
    \E i \in DOMAIN inflight :
        /\ Awaiting(i, "reactivateEquipment", "request")
        /\ Answered(inflight[i].req)
        /\ IF Fulfils(inflight[i].req)
           THEN /\ list' = reactivateEquipment_patch(list, inflight[i].closure,
                                                     inflight[i].id)
                /\ AwaitStatistics(i)
                /\ UNCHANGED <<error, settled>>
           ELSE /\ FailAtResume(i)
                /\ UNCHANGED list
        /\ UNCHANGED <<jsVars, svcVars, clientVars, fnVars, lastFetch, hook, db, nextId, loading, statistics, params, nextSerial>>

statistics_resume ==
    \E i \in DOMAIN inflight :
        /\ i \in DOMAIN inflight
        /\ inflight[i].pc = "stats"
        /\ Answered(inflight[i].req2)
        /\ IF Fulfils(inflight[i].req2)
           THEN /\ statistics' = Some(inflight[i].req2.body)
                /\ Resolve(i)
                /\ UNCHANGED error
           ELSE /\ FailAtResume(i)
                /\ UNCHANGED statistics
        /\ UNCHANGED <<jsVars, svcVars, clientVars, fnVars, lastFetch, hook, db, nextId, list, loading, params, nextSerial>>

---------------------------------------------------------------------------
(* The REST backend, the system of record: db maps an id to the stored      *)
(* record, if any; ids are handed out in order and never reused.            *)

Stored(id) == id \in DOMAIN db /\ IsDefined(db[id])

Overwrite(old, supplied) == IF IsDefined(supplied) THEN Val(supplied) ELSE old

Ordered(S, order) ==
    CHOOSE q \in [1..Cardinality(S) -> S] :
        \A a, b \in 1..Cardinality(S) :
            a < b => IF order = "desc" THEN q[a] > q[b] ELSE q[a] < q[b]

Listing(S, order) == [k \in 1..Cardinality(S) |-> Val(db[Ordered(S, order)[k]])]

Reply(store, body) == [db |-> store, nextId |-> nextId, resp |-> "ok", body |-> body]

NotFound == [db |-> db, nextId |-> nextId, resp |-> "notFound", body |-> <<>>]

Sessions_list(p) == Reply(db, Listing({id \in Ids : Stored(id)}, p.order))

Sessions_create(data) ==
    LET created == [id |-> nextId, wind_speed_min |-> data.wind_speed_min,
                    wind_speed_max |-> data.wind_speed_max]
    IN  [db |-> [db EXCEPT ![nextId] = Some(created)], nextId |-> nextId + 1,
         resp |-> "ok", body |-> created]

Sessions_update(id, data) ==
    IF ~Stored(id) THEN NotFound
    ELSE LET old == Val(db[id])
             updated == [id |-> id,
                         wind_speed_min |-> Overwrite(old.wind_speed_min, data.wind_speed_min),
                         wind_speed_max |-> Overwrite(old.wind_speed_max, data.wind_speed_max)]
         IN  Reply([db EXCEPT ![id] = Some(updated)], updated)

Resource_delete(id) ==
    IF ~Stored(id) THEN NotFound ELSE Reply([db EXCEPT ![id] = None], <<>>)

Equipment_list(p) ==
    Reply(db, Listing({id \in Ids : Stored(id) /\ (p.activeOnly => Val(db[id]).active)},
                      p.order))

Equipment_stats_counted ==
    LET all == {id \in Ids : Stored(id)}
        active == {id \in all : Val(db[id]).active}
    IN  [db |-> db, nextId |-> nextId + 1, resp |-> "ok",
         body |-> [total |-> Cardinality(all), active |-> Cardinality(active),
                   retired |-> Cardinality(all \ active)]]

Equipment_stats ==
    LET all == {id \in Ids : Stored(id)}
        active == {id \in all : Val(db[id]).active}
    IN  Reply(db, [total |-> Cardinality(all), active |-> Cardinality(active),
                   retired |-> Cardinality(all \ active)])

Equipment_create(data) ==
    LET created == [id |-> nextId, name |-> data.name, active |-> TRUE]
    IN  [db |-> [db EXCEPT ![nextId] = Some(created)], nextId |-> nextId + 1,
         resp |-> "ok", body |-> created]

Equipment_update(id, data) ==
    IF ~Stored(id) THEN NotFound
    ELSE LET updated == [Val(db[id]) EXCEPT !.name = Overwrite(@, data.name)]
         IN  Reply([db EXCEPT ![id] = Some(updated)], updated)

Equipment_setActive(id, value) ==
    IF ~Stored(id) THEN NotFound
    ELSE LET updated == [Val(db[id]) EXCEPT !.active = value]
         IN  Reply([db EXCEPT ![id] = Some(updated)], updated)

Equipment_retire(id) == Equipment_setActive(id, FALSE)

Equipment_reactivate(id) == Equipment_setActive(id, TRUE)

Serve(rq) ==
    CASE rq.kind = "sessions.list"         -> Sessions_list(rq.data)
      [] rq.kind = "sessions.create"       -> Sessions_create(rq.data)
      [] rq.kind = "sessions.update"       -> Sessions_update(rq.id, rq.data)
      [] rq.kind = "sessions.delete"       -> Resource_delete(rq.id)
      [] rq.kind = "equipment.list"        -> Equipment_list(rq.data)
      [] rq.kind = "equipment.statistics"  -> Equipment_stats
      [] rq.kind = "equipment.create"      -> Equipment_create(rq.data)
      [] rq.kind = "equipment.update"      -> Equipment_update(rq.id, rq.data)
      [] rq.kind = "equipment.delete"      -> Resource_delete(rq.id)
      [] rq.kind = "equipment.retire"      -> Equipment_retire(rq.id)
      [] rq.kind = "equipment.reactivate"  -> Equipment_reactivate(rq.id)

Reads == {"sessions.list", "equipment.list", "equipment.statistics"}

Answer(i, slot, resp, body) ==
    inflight' = [inflight EXCEPT ![i][slot] =
                    [@ EXCEPT !.stage = "answered", !.resp = resp, !.body = body]]

(* The request is handled and its response reaches the client *)
BackendResponds ==
    \E i \in DOMAIN inflight, slot \in {"req", "req2"} :
        /\ inflight[i][slot].stage = "sent"
        /\ db' = Serve(inflight[i][slot]).db
        /\ nextId' = Serve(inflight[i][slot]).nextId
        /\ Answer(i, slot, Serve(inflight[i][slot]).resp, Serve(inflight[i][slot]).body)
        /\ UNCHANGED <<jsVars, svcVars, clientVars, fnVars, lastFetch, hook, list, loading, error, statistics, params,
                       nextSerial, settled>>

(* The request never reaches the backend *)
RequestLost ==
    \E i \in DOMAIN inflight, slot \in {"req", "req2"} :
        /\ inflight[i][slot].stage = "sent"
        /\ Answer(i, slot, "networkError", <<>>)
        /\ UNCHANGED <<jsVars, svcVars, clientVars, fnVars, lastFetch, hook, db, nextId, list, loading, error, statistics,
                       params, nextSerial, settled>>

(* The request is handled but its response does not arrive in time *)
ResponseLost ==
    \E i \in DOMAIN inflight, slot \in {"req", "req2"} :
        /\ inflight[i][slot].stage = "sent"
        /\ inflight[i][slot].kind \notin Reads
        /\ db' = Serve(inflight[i][slot]).db
        /\ nextId' = Serve(inflight[i][slot]).nextId
        /\ Answer(i, slot, "timeout", <<>>)
        /\ UNCHANGED <<jsVars, svcVars, clientVars, fnVars, lastFetch, hook, list, loading, error, statistics, params,
                       nextSerial, settled>>

---------------------------------------------------------------------------
(* The hook specification: a component has mounted one of the hooks, whose  *)
(* mount effect has issued the first fetch against a backend that holds     *)
(* valid records.                                                           *)

StoredSessions(id) ==
    {s \in [id : {id}, wind_speed_min : {0}, wind_speed_max : {0, MaxWind}] :
        s.wind_speed_min <= s.wind_speed_max}

StoredEquipment(id) == [id : {id}, name : {Str(0, 1, 0)}, active : BOOLEAN]

ValidStore(records) ==
    /\ nextId \in 1..(MaxId + 1)
    /\ db \in [Ids -> UNION {Opt(records[id]) : id \in Ids}]
    /\ \A id \in Ids : /\ IsDefined(db[id]) <=> id < nextId
                       /\ IsDefined(db[id]) => Val(db[id]).id = id

ServiceIdle ==
    /\ svcCall = [op |-> "none"]
    /\ svcResult = Pending
    /\ repoLog = <<>>

DefaultParams == [order |-> "none", activeOnly |-> TRUE]

Init ==
    /\ ServiceIdle
    /\ ClientIdle
    /\ FnIdle
    /\ JsIdle
    /\ \/ /\ hook = "useSessions"
          /\ ValidStore([id \in Ids |-> StoredSessions(id)])
          /\ inflight = <<[serial |-> 1, action |-> "fetchSessions", id |-> 0,
                           data |-> DefaultParams, closure |-> <<>>, pc |-> "request",
                           req |-> Request("sessions.list", 0, DefaultParams),
                           req2 |-> NoRequest]>>
       \/ /\ hook = "useEquipment"
          /\ ValidStore([id \in Ids |-> StoredEquipment(id)])
          /\ inflight = <<[serial |-> 1, action |-> "fetchEquipment", id |-> 0,
                           data |-> DefaultParams, closure |-> <<>>, pc |-> "request",
                           req |-> Request("equipment.list", 0, DefaultParams),
                           req2 |-> Request("equipment.statistics", 0, <<>>)]>>
    /\ list = <<>>
    /\ loading = TRUE
    /\ error = None
    /\ statistics = None
    /\ params = DefaultParams
    /\ nextSerial = 2
    /\ settled = <<>>
    /\ lastFetch = Issued(1)

Next ==
    \/ refreshSessions
    \/ sortSessions
    \/ fetchSessions_resume
    \/ useSessions_createSession
    \/ createSession_resume
    \/ useSessions_updateSession
    \/ updateSession_resume
    \/ useSessions_deleteSession
    \/ deleteSession_resume
    \/ refreshEquipment
    \/ sortEquipment
    \/ filterActiveOnly
    \/ fetchEquipment_resume
    \/ useEquipment_createEquipment
    \/ createEquipment_resume
    \/ useEquipment_updateEquipment
    \/ updateEquipment_resume
    \/ useEquipment_deleteEquipment
    \/ deleteEquipment_resume
    \/ useEquipment_retireEquipment
    \/ retireEquipment_resume
    \/ useEquipment_reactivateEquipment
    \/ reactivateEquipment_resume
    \/ statistics_resume
    \/ BackendResponds
    \/ RequestLost
    \/ ResponseLost

Spec == Init /\ [][Next]_vars

---------------------------------------------------------------------------
(* The HTTP clients of the three frontends: the React ApiClient with its    *)
(* interceptors, the APIClient of old_frontend with API.utils.handleError,  *)
(* and the request() function of the static frontend.                       *)

StoredToken == "t1"       \* a token obtained by an earlier login
LoginToken == "t2"        \* the access_token a successful /auth/login returns
StoredUser == "u1"

Unauthorized == 401
Statuses == {Unauthorized, 404, 500}

HttpOk ==
    [kind |-> "ok", status |-> 200, json |-> TRUE, detail |-> None, message |-> None]

NetworkFailure ==
    [kind |-> "network", status |-> 0, json |-> FALSE, detail |-> None, message |-> None]

(* A 4xx/5xx response: its body is JSON with or without the fields detail   *)
(* and message, or is not JSON at all                                       *)
HttpErrors ==
    {r \in [kind : {"error"}, status : Statuses, json : BOOLEAN,
            detail : Opt({"the detail"}), message : Opt({"the message"})] :
        ~r.json => r.detail = None /\ r.message = None}

HttpResponses == {HttpOk, NetworkFailure} \cup HttpErrors

Storages == [token : Opt({StoredToken}), user : Opt({StoredUser})]

Resolved == Some([threw |-> FALSE, message |-> "", status |-> 200])
Thrown(message, status) == Some([threw |-> TRUE, message |-> message, status |-> status])

Send(endpoint, authorization) ==
    wire' = Append(wire, [endpoint |-> endpoint, authorization |-> authorization])

(* React: the request interceptor puts the stored token on the request *)
interceptors_request(endpoint) == Send(endpoint, localStorage.token)

(* React: the message of the Error the response interceptor rejects with;   *)
(* error.message is axios' own text                                         *)
AxiosMessage(r) ==
    IF r.kind = "network" THEN "Network Error" ELSE "Request failed with status code"

interceptors_message(r) ==
    IF IsDefined(r.detail) THEN Val(r.detail)
    ELSE IF IsDefined(r.message) THEN Val(r.message)
    ELSE AxiosMessage(r)

(* React: the response interceptor's rejection handler *)
interceptors_response(r) ==
    /\ localStorage' = IF r.status = Unauthorized
                       THEN [localStorage EXCEPT !.token = None]
                       ELSE localStorage
    /\ location' = IF r.status = Unauthorized THEN "login" ELSE location
    /\ outcome' = Thrown(interceptors_message(r), r.status)

(* old_frontend: the body is parsed only when response.ok *)
APIClient_data(r) == IF r.kind = "ok" /\ r.json THEN Some(r) ELSE None

APIClient_message(r) ==
    IF r.kind = "network" THEN "Network error"
    ELSE IF IsDefined(APIClient_data(r)) /\ IsDefined(Val(APIClient_data(r)).detail)
    THEN Val(Val(APIClient_data(r)).detail)
    ELSE "An error occurred"

(* static: response.json().catch(() => ({ detail: response.statusText })) *)
StatusText(status) ==
    CASE status = Unauthorized -> "Unauthorized"
      [] status = 404 -> "Not Found"
      [] OTHER -> "Internal Server Error"

request_message(r) ==
    IF r.kind = "network" THEN "Failed to fetch"
    ELSE IF ~r.json THEN StatusText(r.status)
    ELSE IF IsDefined(r.detail) THEN Val(r.detail)
    ELSE IF IsDefined(r.message) THEN Val(r.message)
    ELSE "HTTP error! status"

(* --- React: a repository request through ApiClient --- *)

ApiClient_request ==
    /\ variant = "react" /\ clientOp.name = "request" /\ clientPc = "start"
    /\ interceptors_request("/resource")
    /\ clientPc' = "awaiting"
    /\ UNCHANGED <<jsVars, svcVars, hookVars, fnVars, variant, localStorage, location, clientOp, outcome>>

ApiClient_response ==
    /\ variant = "react" /\ clientOp.name = "request" /\ clientPc = "awaiting"
    /\ IF clientOp.response.kind = "ok"
       THEN outcome' = Resolved /\ UNCHANGED <<localStorage, location>>
       ELSE interceptors_response(clientOp.response)
    /\ clientPc' = "done"
    /\ UNCHANGED <<jsVars, svcVars, hookVars, fnVars, variant, clientOp, wire>>

(* --- React: AuthProvider.login -> AuthService.login --- *)

(* The backend accepts the token it has just issued, and an earlier token   *)
(* as long as it has not expired                                            *)
Authorized(authorization) ==
    \/ authorization = Some(LoginToken)
    \/ authorization = Some(StoredToken) /\ clientOp.tokenValid

CredentialsRejected ==
    [kind |-> "error", status |-> Unauthorized, json |-> TRUE,
     detail |-> Some("Could not validate credentials"), message |-> None]

AuthProvider_login ==
    /\ variant = "react" /\ clientOp.name = "login" /\ clientPc = "start"
    /\ interceptors_request("/auth/login")
    /\ clientPc' = "awaitingLogin"
    /\ UNCHANGED <<jsVars, svcVars, hookVars, fnVars, variant, localStorage, location, clientOp, outcome>>

(* AuthService.login after `await this.repository.login(credentials)`:      *)
(* it goes on to `await this.repository.getCurrentUser()`                   *)
AuthService_login_getCurrentUser ==
    /\ variant = "react" /\ clientOp.name = "login" /\ clientPc = "awaitingLogin"
    /\ IF clientOp.response.kind = "ok"
       THEN /\ interceptors_request("/auth/me")
            /\ clientPc' = "awaitingMe"
            /\ UNCHANGED <<localStorage, location, outcome>>
       ELSE /\ interceptors_response(clientOp.response)
            /\ clientPc' = "done"
            /\ UNCHANGED wire
    /\ UNCHANGED <<jsVars, svcVars, hookVars, fnVars, variant, clientOp>>

(* AuthProvider.login after `await authService.login(...)`: the token and   *)
(* the user are persisted                                                   *)
AuthProvider_login_persist ==
    /\ variant = "react" /\ clientOp.name = "login" /\ clientPc = "awaitingMe"
    /\ IF Authorized(wire[Len(wire)].authorization)
       THEN /\ localStorage' = [token |-> Some(LoginToken), user |-> Some(StoredUser)]
            /\ outcome' = Resolved
            /\ UNCHANGED location
       ELSE interceptors_response(CredentialsRejected)
    /\ clientPc' = "done"
    /\ UNCHANGED <<jsVars, svcVars, hookVars, fnVars, variant, clientOp, wire>>

(* --- old_frontend: APIClient.request and the caller's catch block --- *)

APIClient_request ==
    /\ variant = "old" /\ clientPc = "start"
    /\ Send("/resource", localStorage.token)
    /\ clientPc' = "awaiting"
    /\ UNCHANGED <<jsVars, svcVars, hookVars, fnVars, variant, localStorage, location, clientOp, outcome>>

APIClient_response ==
    /\ variant = "old" /\ clientPc = "awaiting"
    /\ IF clientOp.response.kind = "ok"
       THEN outcome' = Resolved /\ clientPc' = "done"
       ELSE /\ outcome' = Thrown(APIClient_message(clientOp.response),
                                 clientOp.response.status)
            /\ clientPc' = "caught"
    /\ UNCHANGED <<jsVars, svcVars, hookVars, fnVars, variant, localStorage, location, clientOp, wire>>

(* catch (error) { ...; API.utils.handleError(error); } *)
API_utils_handleError ==
    /\ variant = "old" /\ clientPc = "caught" /\ clientOp.handled
    /\ IF Val(outcome).status = Unauthorized
       THEN /\ localStorage' = [token |-> None, user |-> None]
            /\ location' = "reload"
       ELSE UNCHANGED <<localStorage, location>>
    /\ clientPc' = "done"
    /\ UNCHANGED <<jsVars, svcVars, hookVars, fnVars, variant, clientOp, wire, outcome>>

(* catch (error) { console.error(...); Toast.show(...); } *)
caller_catch ==
    /\ variant = "old" /\ clientPc = "caught" /\ ~clientOp.handled
    /\ clientPc' = "done"
    /\ UNCHANGED <<jsVars, svcVars, hookVars, fnVars, variant, localStorage, location, clientOp, wire,
                   outcome>>

(* --- static frontend: request(endpoint, method, data, requireAuth) --- *)

request ==
    /\ variant = "static" /\ clientPc = "start"
    /\ IF clientOp.requireAuth /\ localStorage.token = None
       THEN /\ location' = "login"
            /\ outcome' = Thrown("Authentication token not found.", 0)
            /\ clientPc' = "done"
            /\ UNCHANGED wire
       ELSE /\ Send("/resource", IF clientOp.requireAuth THEN localStorage.token ELSE None)
            /\ clientPc' = "awaiting"
            /\ UNCHANGED <<location, outcome>>
    /\ UNCHANGED <<jsVars, svcVars, hookVars, fnVars, variant, localStorage, clientOp>>

request_response ==
    /\ variant = "static" /\ clientPc = "awaiting"
    /\ outcome' = IF clientOp.response.kind = "ok"
                  THEN Resolved
                  ELSE Thrown(request_message(clientOp.response), clientOp.response.status)
    /\ clientPc' = "done"
    /\ UNCHANGED <<jsVars, svcVars, hookVars, fnVars, variant, localStorage, location, clientOp, wire>>

ClientOps(names) ==
    [name : names, response : HttpResponses, requireAuth : BOOLEAN, handled : BOOLEAN,
     tokenValid : BOOLEAN]

ClientInit ==
    /\ ServiceIdle
    /\ HookIdle
    /\ FnIdle
    /\ JsIdle
    /\ variant \in {"react", "old", "static"}
    /\ localStorage \in Storages
    /\ location = "app"
    /\ clientOp \in ClientOps(IF variant = "react" THEN {"request", "login"}
                              ELSE {"request"})
    /\ clientPc = "start"
    /\ wire = <<>>
    /\ outcome = None

ClientNext ==
    \/ ApiClient_request
    \/ ApiClient_response
    \/ AuthProvider_login
    \/ AuthService_login_getCurrentUser
    \/ AuthProvider_login_persist
    \/ APIClient_request
    \/ APIClient_response
    \/ API_utils_handleError
    \/ caller_catch
    \/ request
    \/ request_response

SpecClient == ClientInit /\ [][ClientNext]_vars

---------------------------------------------------------------------------
(* Functions applied on their own: the repositories' mapping of a response  *)
(* to an entity, and the average performance of a list of sessions          *)

MaxSessions == 3

(* GET /sessions/{id} answers with the session's fields and equipment_used, *)
(* the equipment of the session (each item reduced to its id here)          *)
EquipmentUsed == {<<>>} \cup {<<a>> : a \in Ids} \cup {<<a, b>> : a, b \in Ids}

SessionResponses ==
    [id : {1}, wind_speed_min : 0..MaxWind, wind_speed_max : 0..MaxWind,
     equipment_used : EquipmentUsed]

EquipmentResponses == [id : {1}, name : {Str(0, 1, 0), Str(0, 2, 0)}, active : BOOLEAN]

Built(id) == <<0, id>>

(* getWithSettings, its request fulfilled: the same response; the entity    *)
(* built by mapToEntity, then                                               *)
(* session.equipmentIds = response.equipment_used.map(eq => eq.id)          *)
SessionRepository_getWithSettings(response) ==
    [SessionRepository_mapToEntity(response, Built(response.id))
        EXCEPT !.equipmentIds = response.equipment_used]

RECURSIVE reduce(_, _)
(* sessions.reduce((sum, s) => sum + s.performanceRating, 0) *)
reduce(sessions, sum) ==
    IF sessions = <<>> THEN sum
    ELSE reduce(Tail(sessions), sum + Head(sessions).performanceRating)

RECURSIVE GCD(_, _)
GCD(a, b) == IF b = 0 THEN a ELSE GCD(b, a % b)

(* total / sessions.length, a fraction in lowest terms *)
Divide(total, length) ==
    [num |-> total \div GCD(total, length), den |-> length \div GCD(total, length)]

Whole(n) == [num |-> n, den |-> 1]

SessionService_calculateAveragePerformance_floored(sessions) ==
    IF Len(sessions) = 0 THEN Whole(0)
    ELSE Whole(reduce(sessions, 0) \div Len(sessions))

SessionService_calculateAveragePerformance(sessions) ==
    IF Len(sessions) = 0 THEN Whole(0)
    ELSE Divide(reduce(sessions, 0), Len(sessions))

DashboardView_avgPerformance(sessions) ==
    IF Len(sessions) > 0
    THEN Divide(reduce(sessions, 0), Len(sessions))
    ELSE Whole(0)

Apply(fn, result) ==
    /\ fnCall.fn = fn
    /\ fnPc = "called"
    /\ fnResult' = result
    /\ fnPc' = "done"
    /\ UNCHANGED <<jsVars, svcVars, hookVars, clientVars, fnCall>>

CallSessionMapToEntity ==
    Apply("SessionRepository.mapToEntity",
          Some(SessionRepository_mapToEntity(fnCall.response, Built(fnCall.response.id))))

CallSessionGetWithSettings ==
    Apply("SessionRepository.getWithSettings",
          Some(SessionRepository_getWithSettings(fnCall.response)))

CallEquipmentMapToEntity ==
    Apply("EquipmentRepository.mapToEntity",
          Some(EquipmentRepository_mapToEntity(fnCall.response,
                                               Built(fnCall.response.id))))

CallCalculateAveragePerformance ==
    Apply("SessionService.calculateAveragePerformance",
          Some(SessionService_calculateAveragePerformance(fnCall.sessions)))

RenderDashboardView ==
    Apply("DashboardView.avgPerformance",
          Some(DashboardView_avgPerformance(fnCall.sessions)))

(* Session's condition getters and SessionService.getSessionsByCondition.    *)
(* Wind speeds are whole knots in tenths, so the average is exact.          *)
MaxKnots == 21

WaveTypes == {"Flat", "Choppy", "Medium", "Large"}

ConditionSessions ==
    [windSpeedMin : {Num(k, 0) : k \in 0..MaxKnots},
     windSpeedMax : {Num(k, 0) : k \in 0..MaxKnots},
     waveType : WaveTypes]

Session_averageWindSpeed(s) == (s.windSpeedMin + s.windSpeedMax) \div 2

Session_isHeavyWeather(s) ==
    Session_averageWindSpeed(s) > Num(20, 0) \/ s.waveType = "Large" \/ s.waveType = "Medium"

Session_isLightWeather_anyWave(s) == Session_averageWindSpeed(s) < Num(8, 0)

Session_isLightWeather(s) ==
    Session_averageWindSpeed(s) < Num(8, 0) /\ (s.waveType = "Flat" \/ s.waveType = "Choppy")

(* the first element of getConditionsSummary's conditions *)
Session_getConditionsSummary(s) ==
    IF Session_isHeavyWeather(s) THEN "Heavy"
    ELSE IF Session_isLightWeather(s) THEN "Light"
    ELSE "Medium"

IsHeavy(s) == Session_isHeavyWeather(s)
IsLight(s) == Session_isLightWeather(s)
IsMedium(s) == ~Session_isHeavyWeather(s) /\ ~Session_isLightWeather(s)

SessionService_getSessionsByCondition(sessions, condition) ==
    CASE condition = "heavy"  -> SelectSeq(sessions, IsHeavy)
      [] condition = "light"  -> SelectSeq(sessions, IsLight)
      [] condition = "medium" -> SelectSeq(sessions, IsMedium)
      [] OTHER                -> sessions

(* the three buckets of a list and the labels of its sessions *)
CallGetSessionsByCondition ==
    Apply("SessionService.getSessionsByCondition",
          [heavy |-> SessionService_getSessionsByCondition(fnCall.sessions, "heavy"),
           light |-> SessionService_getSessionsByCondition(fnCall.sessions, "light"),
           medium |-> SessionService_getSessionsByCondition(fnCall.sessions, "medium"),
           summary |-> [k \in DOMAIN fnCall.sessions |->
                           Session_getConditionsSummary(fnCall.sessions[k])]])

Conditions(fn) == {[fn |-> fn, sessions |-> <<s>>] : s \in ConditionSessions}

Mappings(fn, responses) == {[fn |-> fn, response |-> w] : w \in responses}

SessionLists ==
    UNION {[1..n -> [performanceRating : {Num(r, 0) : r \in 1..5}]] : n \in 0..MaxSessions}

Averages(fn) == {[fn |-> fn, sessions |-> l] : l \in SessionLists}

FnInit ==
    /\ ServiceIdle
    /\ HookIdle
    /\ ClientIdle
    /\ \/ fnCall \in Mappings("SessionRepository.mapToEntity", SessionResponses)
       \/ fnCall \in Mappings("SessionRepository.getWithSettings", SessionResponses)
       \/ fnCall \in Mappings("EquipmentRepository.mapToEntity", EquipmentResponses)
       \/ fnCall \in Averages("SessionService.calculateAveragePerformance")
       \/ fnCall \in Averages("DashboardView.avgPerformance")
       \/ fnCall \in Conditions("SessionService.getSessionsByCondition")
    /\ fnPc = "called"
    /\ fnResult = <<>>
    /\ JsIdle

FnNext ==
    \/ CallSessionMapToEntity
    \/ CallSessionGetWithSettings
    \/ CallEquipmentMapToEntity
    \/ CallCalculateAveragePerformance
    \/ RenderDashboardView
    \/ CallGetSessionsByCondition

SpecFunctions == FnInit /\ [][FnNext]_vars

---------------------------------------------------------------------------
(* EquipmentService.getEquipmentStatistics called twice in a row by a       *)
(* signed-in React client, other clients possibly changing the equipment    *)
(* between the two calls                                                    *)

EquipmentRepository_getStatistics(resp, body) ==
    IF resp = "ok"
    THEN [threw |-> FALSE, message |-> "", value |-> body]
    ELSE [threw |-> TRUE, message |-> InterceptorMessage(resp), value |-> <<>>]

EquipmentService_getEquipmentStatistics(resp, body) ==
    EquipmentRepository_getStatistics(resp, body)

CallGetEquipmentStatistics ==
    LET resp == fnCall.resps[Len(fnResult) + 1]
    IN  /\ fnCall.fn = "EquipmentService.getEquipmentStatistics"
        /\ fnPc \in {"called", "between", "mutated"}
        /\ db' = Equipment_stats.db
        /\ nextId' = Equipment_stats.nextId
        /\ fnResult' = Append(fnResult,
                              EquipmentService_getEquipmentStatistics(resp,
                                                                      Equipment_stats.body))
        /\ IF resp = "unauthorized"
           THEN /\ localStorage' = [localStorage EXCEPT !.token = None]
                /\ location' = "login"
           ELSE UNCHANGED <<localStorage, location>>
        /\ fnPc' = CASE fnPc = "called"  -> "between"
                     [] fnPc = "between" -> "done"
                     [] fnPc = "mutated" -> "doneMutated"
        /\ UNCHANGED <<jsVars, svcVars, hook, list, loading, error, statistics, params, inflight,
                       nextSerial, settled, lastFetch, variant, clientOp, clientPc, wire, outcome,
                       fnCall>>

Mutates(rq) ==
    /\ fnCall.fn = "EquipmentService.getEquipmentStatistics"
    /\ fnPc \in {"between", "mutated"}
    /\ Serve(rq).resp = "ok"
    /\ db' = Serve(rq).db
    /\ nextId' = Serve(rq).nextId
    /\ fnPc' = "mutated"
    /\ UNCHANGED <<jsVars, svcVars, clientVars, hook, list, loading, error, statistics, params,
                   inflight, nextSerial, settled, lastFetch, fnCall, fnResult>>

(* create, update, delete, retire or reactivate, by anyone *)
EquipmentMutation ==
    \/ \E d \in EquipmentPayloads :
          nextId <= MaxId /\ Mutates(Request("equipment.create", 0, d))
    \/ \E id \in Ids, d \in EquipmentUpdates :
          Mutates(Request("equipment.update", id, d))
    \/ \E id \in Ids,
            kind \in {"equipment.delete", "equipment.retire", "equipment.reactivate"} :
          Mutates(Request(kind, id, <<>>))

StatisticsInit ==
    /\ ServiceIdle
    /\ hook = "none"
    /\ ValidStore([id \in Ids |-> StoredEquipment(id)])
    /\ list = <<>>
    /\ loading = FALSE
    /\ error = None
    /\ statistics = None
    /\ params = DefaultParams
    /\ inflight = <<>>
    /\ nextSerial = 1
    /\ settled = None
    /\ lastFetch = Issued(0)
    /\ variant = "react"
    /\ localStorage = [token |-> Some(StoredToken), user |-> Some(StoredUser)]
    /\ location = "app"
    /\ clientOp = [name |-> "none"]
    /\ clientPc = "done"
    /\ wire = <<>>
    /\ outcome = None
    /\ fnCall \in [fn : {"EquipmentService.getEquipmentStatistics"},
                   resps : Responses \X Responses]
    /\ fnPc = "called"
    /\ fnResult = <<>>
    /\ JsIdle

StatisticsNext ==
    \/ CallGetEquipmentStatistics
    \/ EquipmentMutation

SpecStatistics == StatisticsInit /\ [][StatisticsNext]_vars

---------------------------------------------------------------------------
(* The page controller of the vanilla-JS frontend: App.navigateToPage, the  *)
(* async init() of the four pages, the auto-refresh intervals of Dashboard  *)
(* and Analytics, and the submit listeners of the two forms.  Every load of *)
(* an init() catches its errors, so an init() always runs to its end.  A    *)
(* tick of an interval only reloads what the page shows and is left out.    *)

MaxNavigations == 3

Pages == {"dashboard", "sessions", "equipment", "analytics"}
Forms == {"sessions", "equipment"}

(* the awaits of a page's init(), in order *)
Loads(page) ==
    CASE page = "dashboard" -> <<"loadDashboardData">>
      [] page = "sessions"  -> <<"loadSessions", "loadFilters">>
      [] page = "equipment" -> <<"loadEquipment", "loadEquipmentTypes">>
      [] page = "analytics" -> <<"loadAnalytics">>

HasAutoRefresh(page) == page \in {"dashboard", "analytics"}

clearInterval(running, handle) == {t \in running : t.id # handle}

(* Dashboard.destroy / Analytics.destroy; Sessions and Equipment have none *)
destroy(page) ==
    IF HasAutoRefresh(page) /\ IsDefined(refreshInterval[page])
    THEN /\ intervals' = clearInterval(intervals, Val(refreshInterval[page]))
         /\ refreshInterval' = [refreshInterval EXCEPT ![page] = None]
    ELSE UNCHANGED <<intervals, refreshInterval>>

App_navigateToPage(pageName) ==
    /\ navigations < MaxNavigations
    /\ IF currentPage # "none"
       THEN destroy(currentPage)
       ELSE UNCHANGED <<intervals, refreshInterval>>
    /\ currentPage' = pageName
    /\ pending' = Append(pending, [page |-> pageName, pc |-> 1])
    /\ navigations' = navigations + 1
    /\ UNCHANGED <<svcVars, hookVars, clientVars, fnVars, timerVars, nextHandle,
                   listeners, submitted>>

(* a load of an init() completes and the next one is awaited *)
Page_load(i) ==
    /\ pending[i].pc < Len(Loads(pending[i].page))
    /\ pending' = [pending EXCEPT ![i].pc = @ + 1]
    /\ UNCHANGED <<svcVars, hookVars, clientVars, fnVars, timerVars, nextHandle,
                   currentPage, refreshInterval, intervals, listeners, submitted,
                   navigations>>

bindEvents(page) ==
    IF page \in Forms
    THEN listeners' = [listeners EXCEPT ![page] = @ + 1]
    ELSE UNCHANGED listeners

startAutoRefresh(page) ==
    IF HasAutoRefresh(page)
    THEN /\ intervals' = intervals \cup {[id |-> nextHandle, page |-> page]}
         /\ refreshInterval' = [refreshInterval EXCEPT ![page] = Some(nextHandle)]
         /\ nextHandle' = nextHandle + 1
    ELSE UNCHANGED <<intervals, refreshInterval, nextHandle>>

(* the last load of an init() completes: bindEvents, then startAutoRefresh *)
Page_init(i) ==
    /\ pending[i].pc = Len(Loads(pending[i].page))
    /\ bindEvents(pending[i].page)
    /\ startAutoRefresh(pending[i].page)
    /\ pending' = SubSeq(pending, 1, i - 1) \o SubSeq(pending, i + 1, Len(pending))
    /\ UNCHANGED <<svcVars, hookVars, clientVars, fnVars, timerVars, currentPage,
                   submitted, navigations>>

(* the requests one call of handleSessionSubmit / handleEquipmentSubmit sends *)
handleSubmit(form, valid) == IF form = "sessions" /\ ~valid THEN 0 ELSE 1

RECURSIVE Dispatch(_, _, _)
Dispatch(n, form, valid) ==
    IF n = 0 THEN 0 ELSE handleSubmit(form, valid) + Dispatch(n - 1, form, valid)

(* one submit event of a form, delivered to every listener bound to it *)
Submit(form, valid) ==
    /\ listeners[form] > 0
    /\ submitted' = Some([form |-> form, valid |-> valid,
                          requests |-> Dispatch(listeners[form], form, valid)])
    /\ UNCHANGED <<svcVars, hookVars, clientVars, fnVars, timerVars, nextHandle,
                   currentPage, pending, refreshInterval, intervals, listeners,
                   navigations>>

PagesInit ==
    /\ ServiceIdle
    /\ HookIdle
    /\ ClientIdle
    /\ FnIdle
    /\ JsIdle

PagesNext ==
    \/ \E pageName \in Pages : App_navigateToPage(pageName)
    \/ \E i \in DOMAIN pending : Page_load(i)
    \/ \E i \in DOMAIN pending : Page_init(i)
    \/ \E form \in Forms, valid \in BOOLEAN : Submit(form, valid)

SpecPages == PagesInit /\ [][PagesNext]_vars

---------------------------------------------------------------------------
(* AuthService.login of the static frontend (js/auth.js) over request() of  *)
(* js/api.js: the token request, then getCurrentUser's request             *)

(* what POST /auth/token answers: a body with an access_token, a body       *)
(* without one, or a failure that request() throws                         *)
TokenResponses == {"ok", "noToken"} \cup Failures

StaticAuth_isAuthenticated(storage) == IsDefined(storage.token)

StaticAuth_logout(storage) == [storage EXCEPT !.token = None, !.user = None]

(* login up to its first await: request('/auth/token', 'POST', formData, false) *)
StaticAuth_login ==
    /\ fnCall.fn = "AuthService.login"
    /\ fnPc = "called"
    /\ fnPc' = "token"
    /\ UNCHANGED <<jsVars, svcVars, hookVars, variant, localStorage, location, clientOp,
                   clientPc, wire, outcome, fnCall, fnResult>>

(* the token request settles; with an access_token login stores it and      *)
(* getCurrentUser sends GET /auth/me                                        *)
StaticAuth_login_token ==
    /\ fnCall.fn = "AuthService.login"
    /\ fnPc = "token"
    /\ IF fnCall.token = "ok"
       THEN /\ localStorage' = [localStorage EXCEPT !.token = Some(LoginToken)]
            /\ fnPc' = "me"
            /\ UNCHANGED fnResult
       ELSE /\ fnResult' = Some(FALSE)
            /\ fnPc' = "done"
            /\ UNCHANGED localStorage
    /\ UNCHANGED <<jsVars, svcVars, hookVars, variant, location, clientOp, clientPc, wire,
                   outcome, fnCall>>

(* getCurrentUser's request settles: the user is stored, or the catch logs  *)
(* out and returns null; login returns true after either                    *)
StaticAuth_getCurrentUser ==
    /\ fnCall.fn = "AuthService.login"
    /\ fnPc = "me"
    /\ IF fnCall.me = "ok"
       THEN /\ localStorage' = [localStorage EXCEPT !.user = Some(StoredUser)]
            /\ UNCHANGED location
       ELSE /\ localStorage' = StaticAuth_logout(localStorage)
            /\ location' = "login"
    /\ fnResult' = Some(TRUE)
    /\ fnPc' = "done"
    /\ UNCHANGED <<jsVars, svcVars, hookVars, variant, clientOp, clientPc, wire, outcome,
                   fnCall>>

AuthInit ==
    /\ ServiceIdle
    /\ HookIdle
    /\ JsIdle
    /\ variant = "static"
    /\ localStorage \in Storages
    /\ location = "login"
    /\ clientOp = [name |-> "none"]
    /\ clientPc = "done"
    /\ wire = <<>>
    /\ outcome = None
    /\ fnCall \in [fn : {"AuthService.login"}, token : TokenResponses, me : Responses]
    /\ fnPc = "called"
    /\ fnResult = <<>>

AuthNext ==
    \/ StaticAuth_login
    \/ StaticAuth_login_token
    \/ StaticAuth_getCurrentUser

SpecAuth == AuthInit /\ [][AuthNext]_vars

---------------------------------------------------------------------------
(* Utils.debounce(func, wait): the closure's timeout variable, the timeouts *)
(* the browser holds, and the clock.  A timeout runs once its delay has     *)
(* elapsed, possibly late; an event that arrives when a timeout is already  *)
(* due is handled after that timeout.                                       *)

MaxWait == 2
MaxTime == 5
MaxCalls == 3

Args == {"a", "b"}

(* clearTimeout(undefined) and clearTimeout of a timeout that ran do nothing *)
clearTimeout_ignored(held, handle) == held

clearTimeout(held, handle) ==
    {t \in held : ~(IsDefined(handle) /\ t.id = Val(handle))}

setTimeout(held, args) ==
    held \cup {[id |-> nextHandle, due |-> now + wait, args |-> args]}

Due(t) == t.due <= now

(* the debounced function is called: clearTimeout(timeout); timeout =        *)
(* setTimeout(later, wait)                                                   *)
executedFunction(args) ==
    /\ Len(calls) < MaxCalls
    /\ now + wait <= MaxTime
    /\ \A t \in timers : ~Due(t)
    /\ timers' = setTimeout(clearTimeout(timers, timeout), args)
    /\ timeout' = Some(nextHandle)
    /\ nextHandle' = nextHandle + 1
    /\ calls' = Append(calls, [at |-> now, args |-> args])
    /\ UNCHANGED <<svcVars, hookVars, clientVars, fnVars, pageVars, wait, now, runs>>

(* a timeout runs later(): clearTimeout(timeout); func(...args) *)
later(t) ==
    /\ Due(t)
    /\ timers' = clearTimeout(timers \ {t}, timeout)
    /\ runs' = Append(runs, [at |-> now, args |-> t.args, calls |-> Len(calls)])
    /\ UNCHANGED <<svcVars, hookVars, clientVars, fnVars, pageVars, wait, now, timeout,
                   nextHandle, calls>>

Tick ==
    /\ now < MaxTime
    /\ now' = now + 1
    /\ UNCHANGED <<svcVars, hookVars, clientVars, fnVars, pageVars, wait, timeout, timers,
                   nextHandle, calls, runs>>

DebounceInit ==
    /\ ServiceIdle
    /\ HookIdle
    /\ ClientIdle
    /\ FnIdle
    /\ currentPage = "sessions"
    /\ pending = <<>>
    /\ refreshInterval = [dashboard |-> None, analytics |-> None]
    /\ intervals = {}
    /\ listeners = [sessions |-> 1, equipment |-> 0]
    /\ submitted = None
    /\ navigations = 1
    /\ wait \in 1..MaxWait
    /\ now = 0
    /\ timeout = None
    /\ timers = {}
    /\ nextHandle = 1
    /\ calls = <<>>
    /\ runs = <<>>

DebounceNext ==
    \/ \E args \in Args : executedFunction(args)
    \/ \E t \in timers : later(t)
    \/ Tick

(* time passes, and a timeout that is due runs *)
SpecDebounce ==
    /\ DebounceInit
    /\ [][DebounceNext]_vars
    /\ WF_vars(Tick)
    /\ WF_vars(\E t \in timers : later(t))

---------------------------------------------------------------------------
(* Properties of the services and of get-by-id, under SpecService *)

HoursMessage == "Hours on water must be between 0 and 12"
RatingMessage == "Performance rating must be between 1 and 5"
WindOrderMessage == "Minimum wind speed cannot exceed maximum"

Finished(op) == svcResult.done /\ svcCall.op = op
Rejected(msg) == svcResult.threw /\ svcResult.message = msg /\ repoLog = <<>>

LocationGiven(data) == TrimLength(data.location) > 0
HoursInRange(h) == 0 < h /\ h <= HoursMax
RatingInRange(r) == RatingMin <= r /\ r <= RatingMax
IsInteger(n) == n % 10 = 0

(* C1 as stated: a create payload whose fields other than the two wind      *)
(* speeds are valid and whose wind_speed_min exceeds wind_speed_max is       *)
(* rejected with "Minimum wind speed cannot exceed maximum" and never        *)
(* reaches repository.create.                                                *)
C1_AsStated ==
    (/\ Finished("SessionService.createSession")
     /\ LocationGiven(svcCall.data)
     /\ HoursInRange(svcCall.data.hours_on_water)
     /\ RatingInRange(svcCall.data.performance_rating)
     /\ svcCall.data.wind_speed_min > svcCall.data.wind_speed_max)
        => Rejected(WindOrderMessage)

(* C1 amended: the same for payloads whose wind_speed_max is not negative;   *)
(* with a negative wind_speed_max the call is rejected one check earlier,    *)
(* with "Wind speeds cannot be negative", and still without a repository     *)
(* call.                                                                     *)
C1_WindOrderRejected ==
    (/\ Finished("SessionService.createSession")
     /\ LocationGiven(svcCall.data)
     /\ HoursInRange(svcCall.data.hours_on_water)
     /\ RatingInRange(svcCall.data.performance_rating)
     /\ svcCall.data.wind_speed_min > svcCall.data.wind_speed_max)
        => IF svcCall.data.wind_speed_max >= 0
           THEN Rejected(WindOrderMessage)
           ELSE Rejected("Wind speeds cannot be negative")

C1_Witness ==
    /\ Finished("SessionService.createSession")
    /\ svcCall.data.wind_speed_min = 1 /\ svcCall.data.wind_speed_max = 0
    /\ svcCall.resp = "ok"
    /\ Rejected(WindOrderMessage)

(* The validation rules of each mutation entry point, as the spec states     *)
(* them (update rules bind the fields that are present).                     *)
FailsValidation ==
    LET d == svcCall.data
    IN  CASE svcCall.op = "SessionService.createSession" ->
               \/ ~LocationGiven(d)
               \/ d.wind_speed_min < 0 \/ d.wind_speed_max < 0
               \/ d.wind_speed_min > d.wind_speed_max
               \/ ~HoursInRange(d.hours_on_water)
               \/ ~RatingInRange(d.performance_rating)
          [] svcCall.op = "SessionService.updateSession" ->
               \/ /\ IsDefined(d.wind_speed_min) /\ IsDefined(d.wind_speed_max)
                  /\ Val(d.wind_speed_min) > Val(d.wind_speed_max)
               \/ IsDefined(d.hours_on_water) /\ ~HoursInRange(Val(d.hours_on_water))
               \/ /\ IsDefined(d.performance_rating)
                  /\ ~RatingInRange(Val(d.performance_rating))
          [] svcCall.op = "SessionService.createEquipmentSettings" ->
               \/ \E f \in TensionFields :
                     /\ IsDefined(d.tensions[f])
                     /\ Val(d.tensions[f]) \notin 0..Num(10, 0)
               \/ /\ IsDefined(d.mast_rake)
                  /\ Val(d.mast_rake) \notin Num(0 - 5, 0)..Num(30, 0)
          [] svcCall.op = "EquipmentService.createEquipment" ->
               TrimLength(d.name) = 0 \/ StrLength(d.name) > 100
          [] svcCall.op = "EquipmentService.updateEquipment" ->
               /\ IsDefined(d.name)
               /\ (TrimLength(Val(d.name)) = 0 \/ StrLength(Val(d.name)) > 100)
          [] svcCall.op = "AuthService.login" ->
               \/ StrLength(d.username) = 0 \/ StrLength(d.password) = 0
               \/ StrLength(d.username) < 3
          [] svcCall.op = "AuthService.register" ->
               \/ Len(d.email) = 0 \/ ~isValidEmail(d.email)
               \/ StrLength(d.username) < 3
               \/ StrLength(d.password) < 6
          [] OTHER -> FALSE

(* C3: whenever the input of a mutation entry point fails a validation rule, *)
(* the call ends in an error and no repository method was invoked.           *)
C3_InvalidNeverReachesRepository ==
    (svcResult.done /\ FailsValidation) => (svcResult.threw /\ repoLog = <<>>)

C3_Witness ==
    /\ Finished("AuthService.login")
    /\ StrLength(svcCall.data.username) = 2
    /\ StrLength(svcCall.data.password) = 6
    /\ svcCall.resp = <<"ok", "ok">>
    /\ svcResult.threw /\ repoLog = <<>>

(* C4 as stated: a performance_rating is accepted if and only if it is an    *)
(* integer in 1..5; every other value, every non-integer among them, is      *)
(* rejected with "Performance rating must be between 1 and 5".  (Stated for  *)
(* payloads that pass the checks made before the rating's.)                  *)
C4_RatingIntegerOneToFive ==
    LET d == svcCall.data
        accepted(r) == RatingInRange(r) /\ IsInteger(r)
        decides(r) == IF accepted(r)
                      THEN ~svcResult.threw \/ repoLog # <<>>
                      ELSE Rejected(RatingMessage)
    IN  /\ (/\ Finished("SessionService.createSession")
            /\ LocationGiven(d)
            /\ d.wind_speed_min >= 0 /\ d.wind_speed_min <= d.wind_speed_max
            /\ HoursInRange(d.hours_on_water))
               => decides(d.performance_rating)
        /\ (/\ Finished("SessionService.updateSession")
            /\ IsDefined(d.performance_rating)
            /\ ~(/\ IsDefined(d.wind_speed_min) /\ IsDefined(d.wind_speed_max)
                 /\ Val(d.wind_speed_min) > Val(d.wind_speed_max))
            /\ (IsDefined(d.hours_on_water) => HoursInRange(Val(d.hours_on_water))))
               => decides(Val(d.performance_rating))

(* C5: hours_on_water (in tenths of an hour) is accepted if and only if      *)
(* 0 < hours_on_water <= 12: outside it the call is rejected with "Hours on  *)
(* water must be between 0 and 12" before any repository call, inside it the *)
(* call is not rejected for its hours and, its rating being in range too,    *)
(* reaches the repository.  (Stated for payloads that pass the checks made   *)
(* before the hours'.)                                                       *)
C5_HoursInHalfOpenRange ==
    LET d == svcCall.data
        decides(h, ratingOk) ==
            IF HoursInRange(h)
            THEN /\ ~(svcResult.threw /\ svcResult.message = HoursMessage)
                 /\ ratingOk => repoLog # <<>>
            ELSE Rejected(HoursMessage)
    IN  /\ (/\ Finished("SessionService.createSession")
            /\ LocationGiven(d)
            /\ d.wind_speed_min >= 0 /\ d.wind_speed_min <= d.wind_speed_max)
               => decides(d.hours_on_water, RatingInRange(d.performance_rating))
        /\ (/\ Finished("SessionService.updateSession")
            /\ IsDefined(d.hours_on_water)
            /\ ~(/\ IsDefined(d.wind_speed_min) /\ IsDefined(d.wind_speed_max)
                 /\ Val(d.wind_speed_min) > Val(d.wind_speed_max)))
               => decides(Val(d.hours_on_water),
                          IsDefined(d.performance_rating)
                              => RatingInRange(Val(d.performance_rating)))

C5_Witness ==
    /\ Finished("SessionService.createSession")
    /\ svcCall.data.hours_on_water = Num(12, 0)
    /\ svcCall.resp = "ok"
    /\ ~svcResult.threw /\ repoLog = <<"SessionRepository.create">>

GetById == {"SessionService.getSessionById", "EquipmentService.getEquipmentById"}

(* C6: get-by-id of an id the backend does not have (a 404 response)         *)
(* completes normally with the result null.                                  *)
C6_NotFoundIsNull ==
    (svcResult.done /\ svcCall.op \in GetById /\ svcCall.resp = "notFound")
        => (~svcResult.threw /\ svcResult.value = "null")

C6_Witness ==
    /\ Finished("SessionService.getSessionById")
    /\ svcCall.resp = "notFound"
    /\ ~svcResult.threw /\ svcResult.value = "null"

(* C7 as stated: get-by-id gives null only for a 404; every other failure of *)
(* the request (network error, timeout, 5xx, 401) is thrown to the caller.   *)
C7_OnlyNotFoundIsNull ==
    (svcResult.done /\ svcCall.op \in GetById)
        => /\ svcResult.value = "null" => svcCall.resp = "notFound"
           /\ svcCall.resp \in Failures \ {"notFound"} => svcResult.threw

---------------------------------------------------------------------------
(* Properties of the hooks, under Spec *)

(* C2: after any createSession and updateSession calls that pass validation, *)
(* every session the backend stores and every session in the useSessions     *)
(* list has windSpeedMin <= windSpeedMax, updates of one bound included      *)
C2_WindOrderKept ==
    hook = "useSessions" =>
        /\ \A id \in Ids :
              Stored(id) => Val(db[id]).wind_speed_min <= Val(db[id]).wind_speed_max
        /\ \A k \in DOMAIN list : list[k].windSpeedMin <= list[k].windSpeedMax

(* The step in which activation i, its mutation answered with success,      *)
(* patches the list and goes on to refetch the statistics                   *)
Patches(i, action) ==
    /\ Awaiting(i, action, "request")
    /\ Fulfils(inflight[i].req)
    /\ Len(inflight') = Len(inflight)
    /\ inflight'[i].serial = inflight[i].serial
    /\ inflight'[i].pc = "stats"

(* The step in which the backend handles the request of activation i *)
Handles(i, kind) ==
    /\ inflight[i].req.stage = "sent"
    /\ inflight[i].req.kind = kind
    /\ Len(inflight') = Len(inflight)
    /\ inflight'[i].serial = inflight[i].serial
    /\ inflight'[i].req.stage = "answered"
    /\ inflight'[i].req.resp \in {"ok", "timeout"}

InListAtCall(i) == find(inflight[i].closure, inflight[i].id) # 0

C8_Flag(i, action, value) ==
    Patches(i, action) /\ InListAtCall(i) =>
        /\ Len(list') = Len(list)
        /\ \A k \in DOMAIN list :
              list'[k] = IF list[k].id = inflight[i].id
                         THEN [list[k] EXCEPT !.active = value]
                         ELSE list[k]

(* C8: a successful retireEquipment(id) makes the active flag of the listed  *)
(* equipment with that id false, a successful reactivateEquipment(id) makes  *)
(* it true, and neither changes another field or another equipment           *)
C8_RetireThenReactivate ==
    [][\A i \in DOMAIN inflight :
          /\ C8_Flag(i, "retireEquipment", FALSE)
          /\ C8_Flag(i, "reactivateEquipment", TRUE)]_vars

C9_Backend(i, kind, value) ==
    Handles(i, kind) /\ Stored(inflight[i].id) =>
        /\ Val(db'[inflight[i].id]).active = value
        /\ \A id \in Ids \ {inflight[i].id} : db'[id] = db[id]

C9_Client(i, action, value) ==
    Patches(i, action) /\ InListAtCall(i) =>
        \A k \in DOMAIN list :
            list[k].obj = inflight[i].closure[find(inflight[i].closure, inflight[i].id)].obj
                => list'[k].active = value

C9_States ==
    /\ \A id \in Ids : Stored(id) => Val(db[id]).active \in BOOLEAN
    /\ \A k \in DOMAIN list : list[k].active \in BOOLEAN
    /\ CanCall => /\ ENABLED useEquipment_retireEquipment
                  /\ ENABLED useEquipment_reactivateEquipment

(* C9: an equipment is Active or Retired; retire leads to Retired and        *)
(* reactivate to Active, from either state, in the backend's record and in   *)
(* the entity object the hook writes; retire and reactivate can be requested *)
(* in every state, so neither state is terminal                              *)
C9_TwoStateMachine ==
    [][(hook = "useEquipment") =>
          /\ C9_States
          /\ \A i \in DOMAIN inflight :
                /\ C9_Backend(i, "equipment.retire", FALSE)
                /\ C9_Backend(i, "equipment.reactivate", TRUE)
                /\ C9_Client(i, "retireEquipment", FALSE)
                /\ C9_Client(i, "reactivateEquipment", TRUE)]_vars

C9_Witness ==
    /\ hook = "useEquipment"
    /\ IsDefined(settled)
    /\ Val(settled).action = "reactivateEquipment"
    /\ ~Val(settled).threw
    /\ Stored(Val(settled).id)
    /\ Val(db[Val(settled).id]).active
    /\ \E k \in DOMAIN list : list[k].id = Val(settled).id /\ list[k].active

(* The step in which the awaited service call of activation i has failed and *)
(* the function's catch block has run                                        *)
Fails(i) ==
    /\ Rejects(inflight[i].req) \/ Rejects(inflight[i].req2)
    /\ \A j \in DOMAIN inflight' : inflight'[j].serial # inflight[i].serial

FailureMessage(i) ==
    InterceptorMessage(IF Rejects(inflight[i].req) THEN inflight[i].req.resp
                       ELSE inflight[i].req2.resp)

(* A call whose service call failed before a request was sent *)
FailsAtCall == nextSerial' = nextSerial + 1 /\ Len(inflight') = Len(inflight)

Caught(i, threw) ==
    /\ error' = Some(FailureMessage(i))
    /\ settled' = Some(Promise(inflight[i].serial, inflight[i].action, inflight[i].id,
                               threw, FailureMessage(i)))

(* C10: when the service call of any action function fails, the refresh     *)
(* functions included, error becomes the thrown message and the exception   *)
(* is re-thrown to the caller                                               *)
C10_AsStated ==
    [][/\ \A i \in DOMAIN inflight : Fails(i) => Caught(i, TRUE)
       /\ FailsAtCall => /\ Val(settled').threw
                         /\ error' = Some(Val(settled').message)]_vars

IsRefresh(action) == action \in {"fetchSessions", "fetchEquipment"}

(* C10, amended: create, update, delete, retire and reactivate set error to *)
(* the thrown message and re-throw; refreshSessions and refreshEquipment    *)
(* set error to the message and resolve without re-throwing                 *)
C10_ErrorSetAndRethrown ==
    [][/\ \A i \in DOMAIN inflight :
             Fails(i) => Caught(i, ~IsRefresh(inflight[i].action))
       /\ FailsAtCall => /\ Val(settled').threw
                         /\ error' = Some(Val(settled').message)]_vars

C10_Witness ==
    /\ IsDefined(settled)
    /\ Val(settled).action = "retireEquipment"
    /\ Val(settled).threw
    /\ error = Some(Val(settled).message)
    /\ Val(settled).message = "Network Error"

(* The step in which activation i ends with its promise fulfilled *)
Succeeds(i, action) ==
    /\ inflight[i].action = action
    /\ \A j \in DOMAIN inflight' : inflight'[j].serial # inflight[i].serial
    /\ settled' = Some(Promise(inflight[i].serial, action, inflight[i].id, FALSE, ""))

C11_Sessions(i) ==
    Succeeds(i, "updateSession") =>
        /\ Len(list') = Len(list)
        /\ \A k \in DOMAIN list :
              IF list[k].id = inflight[i].id
              THEN /\ list'[k].obj = <<inflight[i].serial, inflight[i].id>>
                   /\ list'[k].id = inflight[i].req.body.id
                   /\ list'[k].windSpeedMin = inflight[i].req.body.wind_speed_min
                   /\ list'[k].windSpeedMax = inflight[i].req.body.wind_speed_max
              ELSE list'[k] = list[k]

C11_Equipment(i) ==
    Succeeds(i, "updateEquipment") =>
        /\ Len(list') = Len(list)
        /\ \A k \in DOMAIN list :
              IF list[k].id = inflight[i].id
              THEN /\ list'[k].obj = <<inflight[i].serial, inflight[i].id>>
                   /\ list'[k].id = inflight[i].req.body.id
                   /\ list'[k].name = inflight[i].req.body.name
                   /\ list'[k].active = inflight[i].req.body.active
              ELSE list'[k] = list[k]

IssuesOnly(i, kind) ==
    /\ inflight[i].req.kind = kind
    /\ inflight[i].req2.stage = "none"
    /\ Len(inflight') = Len(inflight) - 1

(* C11: a successful updateSession / updateEquipment replaces exactly the   *)
(* list entries with the given id by the entity the service returned, keeps *)
(* length, order and every other entry, and issues no list fetch: its only  *)
(* request is the update                                                    *)
C11_UpdatePatchesById ==
    [][\A i \in DOMAIN inflight :
          /\ C11_Sessions(i)
          /\ C11_Equipment(i)
          /\ Succeeds(i, "updateSession") => IssuesOnly(i, "sessions.update")
          /\ Succeeds(i, "updateEquipment") => IssuesOnly(i, "equipment.update")]_vars

C11_Witness ==
    /\ IsDefined(settled)
    /\ Val(settled).action \in {"updateSession", "updateEquipment"}
    /\ ~Val(settled).threw
    /\ Len(list) = 2
    /\ \E k \in DOMAIN list : list[k].obj = <<Val(settled).serial, Val(settled).id>>
    /\ \E k \in DOMAIN list : list[k].id # Val(settled).id

RefetchStatistics ==
    {"createEquipment", "deleteEquipment", "retireEquipment", "reactivateEquipment"}

(* Where an activation stands with its statistics request *)
C12_Order(a) ==
    /\ a.action \in RefetchStatistics /\ a.req2.stage # "none" =>
            /\ Fulfils(a.req)
            /\ a.pc = "stats"
            /\ a.req2.kind = "equipment.statistics"
    /\ a.action = "updateEquipment" => a.req2.stage = "none"

(* The statistics request of an activation is sent once *)
C12_Once(i) ==
    /\ Len(inflight') = Len(inflight)
    /\ inflight'[i].serial = inflight[i].serial
    /\ inflight'[i].req2.stage = "sent"
    /\ inflight[i].req2.stage # "sent"
    => inflight[i].req2.stage = "none"

C12_Stored(i) ==
    /\ \A action \in RefetchStatistics :
          Succeeds(i, action) =>
              /\ Fulfils(inflight[i].req)
              /\ Fulfils(inflight[i].req2)
              /\ inflight[i].req2.kind = "equipment.statistics"
              /\ statistics' = Some(inflight[i].req2.body)
              /\ Len(inflight') = Len(inflight) - 1
    /\ Succeeds(i, "updateEquipment") => statistics' = statistics

(* C12: a successful createEquipment, deleteEquipment, retireEquipment or   *)
(* reactivateEquipment sends one statistics request, after its mutation     *)
(* request was answered, and stores the answer in statistics;               *)
(* updateEquipment sends none                                               *)
C12_StatisticsRefetch ==
    [][(hook = "useEquipment") =>
          /\ \A i \in DOMAIN inflight : C12_Order(inflight[i])
          /\ \A i \in DOMAIN inflight' : C12_Order(inflight'[i])
          /\ \A i \in DOMAIN inflight : C12_Once(i) /\ C12_Stored(i)]_vars

C12_Witness ==
    /\ hook = "useEquipment"
    /\ IsDefined(settled)
    /\ Val(settled).action = "deleteEquipment"
    /\ ~Val(settled).threw
    /\ IsDefined(statistics)
    /\ Val(statistics).total = Cardinality({id \in Ids : Stored(id)})
    /\ Val(statistics).total = 1

---------------------------------------------------------------------------
(* Properties of the HTTP clients, under SpecClient *)

(* C13: after a 401 response, in every frontend variant, the stored token   *)
(* and the stored user record are gone from local storage and the client is *)
(* at the login view                                                        *)
C13_UnauthorizedClearsSession ==
    clientPc = "done" /\ IsDefined(outcome) /\ Val(outcome).status = Unauthorized =>
        /\ localStorage.token = None
        /\ localStorage.user = None
        /\ location \in {"login", "reload"}

(* C14: during the React login, the /auth/me request that follows a         *)
(* successful /auth/login carries the token that login returned             *)
C14_CurrentUserCarriesNewToken ==
    variant = "react" /\ clientOp.name = "login" =>
        \A k \in DOMAIN wire :
            wire[k].endpoint = "/auth/me" => wire[k].authorization = Some(LoginToken)

GenericMessages ==
    {"Request failed with status code", "An error occurred", "HTTP error! status"}
        \cup {StatusText(status) : status \in Statuses}

(* C15: the error thrown for a 4xx/5xx response whose JSON body has a       *)
(* detail field carries that detail as its message; without a detail it     *)
(* carries the body's message field or a generic text; in all three clients *)
C15_DetailIsTheMessage ==
    /\ clientOp.name = "request"
    /\ clientPc \in {"caught", "done"}
    /\ wire # <<>>
    /\ clientOp.response.kind = "error"
    => /\ IsDefined(outcome)
       /\ Val(outcome).threw
       /\ IF IsDefined(clientOp.response.detail)
          THEN Val(outcome).message = Val(clientOp.response.detail)
          ELSE \/ clientOp.response.message = Some(Val(outcome).message)
               \/ Val(outcome).message \in GenericMessages

---------------------------------------------------------------------------
(* Properties of entity instances, under Spec *)

(* C16: an entity instance held by the client keeps the field values it was *)
(* constructed with: whenever the list holds the same instance before and   *)
(* after a step, all its fields are equal                                   *)
C16_EntitiesNeverWritten ==
    [][\A k \in DOMAIN list : \A h \in DOMAIN list' :
          list[k].obj = list'[h].obj => list[k] = list'[h]]_vars

---------------------------------------------------------------------------
(* Properties of the functions applied on their own, under SpecFunctions *)

(* the wire-format fields an update payload carries, from the entity's      *)
UpdateSessionDTO_of(session) ==
    [wind_speed_min |-> session.windSpeedMin,
     wind_speed_max |-> session.windSpeedMax,
     equipment_ids |-> session.equipmentIds]

UpdateEquipmentDTO_of(equipment) == [name |-> equipment.name]

Elements(q) == {q[k] : k \in DOMAIN q}

(* C17: a session or equipment response mapped to an entity and the entity  *)
(* mapped back to the fields of an update payload gives the response's      *)
(* values: the wind speeds and the equipment ids of the session (in any     *)
(* order), the name of the equipment                                        *)
C17_RoundTrip ==
    fnPc = "done" /\ IsDefined(fnResult) =>
        /\ fnCall.fn \in {"SessionRepository.mapToEntity",
                         "SessionRepository.getWithSettings"}
            => LET payload == UpdateSessionDTO_of(Val(fnResult))
               IN  /\ payload.wind_speed_min = fnCall.response.wind_speed_min
                   /\ payload.wind_speed_max = fnCall.response.wind_speed_max
                   /\ Elements(payload.equipment_ids)
                          = Elements(fnCall.response.equipment_used)
        /\ fnCall.fn = "EquipmentRepository.mapToEntity"
            => UpdateEquipmentDTO_of(Val(fnResult)).name = fnCall.response.name

RECURSIVE SumOfRatings(_, _)
SumOfRatings(sessions, n) ==
    IF n = 0 THEN 0 ELSE sessions[n].performanceRating + SumOfRatings(sessions, n - 1)

Rated(ratings) == [k \in DOMAIN ratings |-> [performanceRating |-> Num(ratings[k], 0)]]

(* C19: calculateAveragePerformance returns the sum of the sessions'        *)
(* performanceRating divided by their number (4 for the ratings 3, 4, 5),   *)
(* returns 0 for the empty list, and leaves the list it was given as it was *)
C19_AveragePerformance ==
    [][/\ fnCall.fn = "SessionService.calculateAveragePerformance"
       /\ fnPc = "called"
       /\ fnPc' = "done"
       => LET sessions == fnCall.sessions
              average == Val(fnResult')
          IN  /\ fnCall'.sessions = sessions
              /\ IF Len(sessions) = 0
                 THEN average = Whole(0)
                 ELSE /\ average.den > 0
                      /\ average.num * Len(sessions)
                            = SumOfRatings(sessions, Len(sessions)) * average.den
              /\ sessions = Rated(<<3, 4, 5>>) => average = Whole(Num(4, 0))]_vars

C19_Witness ==
    /\ fnCall.fn = "SessionService.calculateAveragePerformance"
    /\ fnPc = "done"
    /\ fnCall.sessions = Rated(<<3, 4, 5>>)
    /\ fnResult = Some(Whole(Num(4, 0)))

---------------------------------------------------------------------------
(* Properties of the statistics calls, under SpecStatistics *)

Returned(results, n) == n \in DOMAIN results /\ ~results[n].threw

(* C18: two consecutive getEquipmentStatistics calls that return, with no   *)
(* equipment mutation between them, return the same counts (total, active,  *)
(* retired); a call that returns leaves the backend's records and the       *)
(* client's state (local storage, location, hook state) as they were        *)
C18_StatisticsIdempotent ==
    [][/\ fnPc' = "done" /\ Returned(fnResult', 1) /\ Returned(fnResult', 2)
          => fnResult'[1].value = fnResult'[2].value
       /\ Len(fnResult') = Len(fnResult) + 1 /\ Returned(fnResult', Len(fnResult'))
          => UNCHANGED <<db, nextId, svcVars, hookVars, clientVars>>]_vars

C18_Witness ==
    /\ fnCall.fn = "EquipmentService.getEquipmentStatistics"
    /\ fnPc = "done"
    /\ Returned(fnResult, 1) /\ Returned(fnResult, 2)
    /\ fnResult[2].value.total = 2
    /\ fnResult[2].value.active = 1
    /\ fnResult[2].value.retired = 1

---------------------------------------------------------------------------
(* Create and update compared, under SpecService *)

RejectedByValidation == svcResult.threw /\ repoLog = <<>>

(* C20: a field value that createSession rejects (blank location, negative  *)
(* wind speed, wind_speed_min > wind_speed_max, hours outside (0, 12],      *)
(* rating outside [1, 5]) is rejected by updateSession when the update      *)
(* payload carries it, and a name that createEquipment rejects is rejected  *)
(* by updateEquipment                                                       *)
C20_UpdateRejectsWhatCreateRejects ==
    LET u == svcCall.data
    IN  /\ Finished("SessionService.updateSession") =>
            /\ IsDefined(u.location)
                   /\ createSession_locationMissing([location |-> Val(u.location)])
               => RejectedByValidation
            /\ \/ IsDefined(u.wind_speed_min) /\ Val(u.wind_speed_min) < 0
               \/ IsDefined(u.wind_speed_max) /\ Val(u.wind_speed_max) < 0
               => RejectedByValidation
            /\ IsDefined(u.wind_speed_min) /\ IsDefined(u.wind_speed_max)
                   /\ createSession_windInverted(
                          [wind_speed_min |-> Val(u.wind_speed_min),
                           wind_speed_max |-> Val(u.wind_speed_max)])
               => RejectedByValidation
            /\ IsDefined(u.hours_on_water)
                   /\ createSession_hoursOutOfRange(
                          [hours_on_water |-> Val(u.hours_on_water)])
               => RejectedByValidation
            /\ IsDefined(u.performance_rating)
                   /\ createSession_ratingOutOfRange(
                          [performance_rating |-> Val(u.performance_rating)])
               => RejectedByValidation
        /\ Finished("EquipmentService.updateEquipment") =>
            (IsDefined(u.name)
                 /\ EquipmentService_createEquipment([name |-> Val(u.name)], "ok").threw
             => RejectedByValidation)

---------------------------------------------------------------------------
(* Properties of concurrent fetches and actions of the hooks, under Spec *)

IsFetch(a) == a.action \in {"fetchSessions", "fetchEquipment"}

FetchesInFlight(q) == {k \in DOMAIN q : IsFetch(q[k])}

(* activation i is a fetch that got its response(s) and is resumed in this step *)
Installs(i) ==
    /\ IsFetch(inflight[i])
    /\ Fulfils(inflight[i].req)
    /\ inflight[i].req2.stage = "none" \/ Fulfils(inflight[i].req2)
    /\ \A k \in DOMAIN inflight' : inflight'[k].serial # inflight[i].serial

(* the list holds exactly the entities of the response body *)
Holds(l, body) ==
    /\ Len(l) = Len(body)
    /\ \A k \in DOMAIN l :
          l[k] = IF hook = "useSessions"
                 THEN SessionRepository_mapToEntity(body[k], l[k].obj)
                 ELSE EquipmentRepository_mapToEntity(body[k], l[k].obj)

(* C21: when the last list fetch in flight completes with a response, and    *)
(* the fetch issued last has been answered with a list, the hook's list is   *)
(* that list, whatever the order in which the responses arrived              *)
C21_LatestFetchWins ==
    [][(/\ \E i \in DOMAIN inflight : Installs(i)
        /\ FetchesInFlight(inflight') = {}
        /\ IsDefined(lastFetch'.response))
       => Holds(list', Val(lastFetch'.response))]_vars

(* C22: the list of a hook never holds two entries with the same id *)
C22_NoDuplicateIds ==
    \A k, h \in DOMAIN list : list[k].id = list[h].id => k = h

EquipmentMutators ==
    {"createEquipment", "deleteEquipment", "retireEquipment", "reactivateEquipment"}

(* C23: when createEquipment, deleteEquipment, retireEquipment or           *)
(* reactivateEquipment rejects, its mutation has not taken effect: the      *)
(* backend has not answered its mutation request with success (after which  *)
(* the record is created, deleted or switched and the list is patched)      *)
C23_RejectedMeansNotApplied ==
    [][\A i \in DOMAIN inflight :
          Fails(i) /\ inflight[i].action \in EquipmentMutators
              => ~Fulfils(inflight[i].req)]_vars

(* C24: while useEquipment's activeOnly parameter is set and no fetch is in
   flight, every equipment of the hook's list is active *)
C24_ActiveOnlyListsActive ==
    (hook = "useEquipment" /\ params.activeOnly /\ FetchesInFlight(inflight) = {})
        => \A k \in DOMAIN list : list[k].active

(* C25: loading is true whenever a fetch issued by the hook is still in
   flight, and false once every issued fetch has completed *)
C25_LoadingTracksFetches ==
    loading <=> FetchesInFlight(inflight) # {}

---------------------------------------------------------------------------
(* Properties of the vanilla-JS page controller, under SpecPages *)

(* C26: one submit event of the session form or of the equipment form causes
   at most one create/update request, however often the page was navigated
   to before *)
C26_OneRequestPerSubmit ==
    IsDefined(submitted) => Val(submitted).requests <= 1

Running(page) == {t \in intervals : t.page = page}

(* C27: at most one Dashboard interval and at most one Analytics interval is
   active at any time, and none while a different page is the current page *)
C27_OneIntervalOfCurrentPage ==
    /\ Cardinality(Running("dashboard")) <= 1
    /\ Cardinality(Running("analytics")) <= 1
    /\ \A t \in intervals : t.page = currentPage

---------------------------------------------------------------------------
(* Properties of the static frontend's AuthService.login, under SpecAuth *)

LoginReturned == fnCall.fn = "AuthService.login" /\ fnPc = "done"

(* C28: login returns true only if an auth token is stored when it returns,
   and returns false whenever the token request or the current-user request
   fails *)
C28_LoginTrueMeansAuthenticated ==
    LoginReturned =>
        /\ Val(fnResult) => StaticAuth_isAuthenticated(localStorage)
        /\ (fnCall.token \in Failures \/ (fnCall.token = "ok" /\ fnCall.me \in Failures))
              => ~Val(fnResult)

---------------------------------------------------------------------------
(* Properties of the condition buckets, under SpecFunctions *)

Classified ==
    /\ fnCall.fn = "SessionService.getSessionsByCondition"
    /\ fnPc = "done"

InBucket(bucket, s) == \E k \in DOMAIN bucket : bucket[k] = s

Label(condition) ==
    CASE condition = "heavy"  -> "Heavy"
      [] condition = "light"  -> "Light"
      [] condition = "medium" -> "Medium"

(* C29: every session is in exactly one of the heavy, light and medium
   buckets of getSessionsByCondition, isHeavyWeather and isLightWeather are
   never both true, and the bucket is the label getConditionsSummary gives *)
C29_ConditionsPartition ==
    Classified =>
        \A k \in DOMAIN fnCall.sessions :
            LET s == fnCall.sessions[k]
                buckets == {c \in {"heavy", "light", "medium"} : InBucket(fnResult[c], s)}
            IN  /\ Cardinality(buckets) = 1
                /\ ~(Session_isHeavyWeather(s) /\ Session_isLightWeather(s))
                /\ \A c \in buckets : fnResult.summary[k] = Label(c)

(* a session on choppy water whose average wind is exactly 8 knots has been
   classified, and is in the medium bucket *)
C29_Witness ==
    /\ Classified
    /\ fnResult.summary[1] = "Medium"
    /\ fnCall.sessions[1].waveType = "Choppy"
    /\ fnCall.sessions[1].windSpeedMin = Num(8, 0)
    /\ fnCall.sessions[1].windSpeedMax = Num(8, 0)

---------------------------------------------------------------------------
(* Properties of Utils.debounce, under SpecDebounce *)

(* call k is the last call of its burst: the next call, if any, comes wait
   or more after it *)
EndsBurst(k) ==
    /\ k \in DOMAIN calls
    /\ k < Len(calls) => calls[k + 1].at - calls[k].at >= wait

RanFor(k) == \E j \in DOMAIN runs : runs[j].calls = k

FuncRunsForLastCall ==
    /\ \A j \in DOMAIN runs :
          /\ EndsBurst(runs[j].calls)
          /\ runs[j].args = calls[runs[j].calls].args
          /\ runs[j].at >= calls[runs[j].calls].at + wait
    /\ \A j, h \in DOMAIN runs : runs[j].calls = runs[h].calls => j = h

(* C30: in a burst of calls each less than wait after the previous one, func
   runs exactly once, not before wait has elapsed since the last call of the
   burst, and with the arguments of that last call *)
C30_Debounce ==
    /\ []FuncRunsForLastCall
    /\ \A k \in 1..MaxCalls :
          (EndsBurst(k) /\ now >= calls[k].at + wait) ~> RanFor(k)

(* func has run for a burst of two calls with different arguments, and for a
   later burst *)
C30_Witness ==
    /\ Len(calls) = 3
    /\ calls[2].at - calls[1].at < wait
    /\ calls[1].args # calls[2].args
    /\ RanFor(2)
    /\ RanFor(3)

====
